---- MODULE Spec2Model ----
(***************************************************************************)
(* State-machine model of the Cloud-drive web clients.                     *)
(*                                                                         *)
(*   - the end-user client (src/unnamed/part_000): session, file list and  *)
(*     indexing-status polling, upload, delete, chat;                      *)
(*   - the admin console (src/frontend/admin.js): session, loadAllData and *)
(*     the mutating user actions.                                          *)
(*                                                                         *)
(* JavaScript runs each handler to its first await atomically, so every    *)
(* action below is one such run: an event handler up to the point where it *)
(* issues a request, or the continuation that runs when a response (or a   *)
(* timer) arrives.  The backend is not part of the repository: a response  *)
(* is an arbitrary value of the shape the client's code inspects.          *)
(***************************************************************************)
EXTENDS Integers, Sequences, FiniteSets, Bags, TLC

(***************************************************************************)
(* Bounds of the model.                                                    *)
(***************************************************************************)
\* Outstanding asynchronous work of the end-user client (requests awaiting
\* their response plus scheduled timers) a user action may add to.
MaxPending == 2
\* File ids the backend may list.
MaxFileId == 2
\* Queries submitted in one page session.
MaxQueries == 2
\* Outstanding asynchronous work of the admin console (loadAllData()
\* invocations, mutation and login requests, teardown timers) an admin action
\* may add to.
MaxAdminPending == 1
\* Rows a list response of the admin API may hold.
MaxRows == 1

(***************************************************************************)
(* Program constants.                                                      *)
(***************************************************************************)
\* setTimeout(fetchFiles, 3000)
PollDelay == 3000
\* setTimeout(() => { adminToken = null; ... }, 1500)
TeardownDelay == 1500

\* The credential values: access_token strings, and token = null.
Tokens == {"tokA", "tokB"}
NoToken == "null"
\* data.access_token of a body that has no such field.
Undefined == "(undefined)"
\* localStorage.setItem(key, value) stores String(value).
SetItem(value) == IF value = Undefined THEN "undefined" ELSE value
\* if (value): null and undefined are falsy, a token is not.
TruthyAlways(value) == TRUE
Truthy(value) == value \notin {NoToken, Undefined}
\* The one account that logs in on this page.
OneToken == {"tokA"}

\* pollingTimer = null
NoTimer == 0

\* HTTP statuses the backend answers with; 0 stands for a transport failure
\* (fetch rejects, XMLHttpRequest fires onerror with status 0).
NetError == 0
HttpStatuses == {200, 401, 403, 500}
Statuses == HttpStatuses \cup {NetError}

\* response.ok / xhr.status >= 200 && xhr.status < 300
ResponseOkNoCheck(status) == status # NetError
ResponseOk(status) == status >= 200 /\ status < 300

(***************************************************************************)
(* Values.                                                                 *)
(***************************************************************************)
FileIds == 1..MaxFileId

\* A list-files body: FileRecords with distinct ids, listed by ascending id.
RECURSIVE ListsUpTo(_)
ListsUpTo(n) ==
    IF n = 0 THEN {<<>>}
    ELSE LET prev == ListsUpTo(n - 1)
         IN  prev \cup { Append(l, [id |-> n, is_indexed |-> b]) :
                           l \in prev, b \in BOOLEAN }
FileLists == ListsUpTo(MaxFileId)

\* files.some(f => !f.is_indexed)
HasProcessingFirstOnly(fs) == fs # <<>> /\ ~fs[1].is_indexed
HasProcessing(fs) == \E i \in 1..Len(fs) : ~fs[i].is_indexed

IdsOf(fs) == { fs[i].id : i \in 1..Len(fs) }

\* updateDocumentList(): #doc-list gets one checkbox per record of files.
UpdateDocumentList(fs) == IdsOf(fs)

(***************************************************************************)
(* State of the end-user client.                                           *)
(***************************************************************************)
VARIABLES
    booted,          \* DOMContentLoaded has run
    token,           \* let token
    stored,          \* localStorage 'token'
    view,            \* which container is displayed: "loading", "auth", "dashboard"
                     \* ("closed" while the page is not open)
    files,           \* let files
    selectedFileIds, \* let selectedFileIds
    docList,         \* the ids with a checkbox in #doc-list
    pollingTimer,    \* let pollingTimer: the handle of the last timer set
    timers,          \* the scheduled, unfired setTimeout(fetchFiles, ms) timers
    net,             \* requests awaiting their response
    ev,              \* what the last handler run did
    transcript,      \* the children of #chat-messages, in document order
    chatInput,       \* chatInput.value
    sendDisabled,    \* chatForm.querySelector('button').disabled
    asked            \* queries submitted so far

pollVars == <<booted, token, stored, view, files, selectedFileIds, docList,
              pollingTimer, timers>>
chatVars == <<transcript, chatInput, sendDisabled, asked>>
userVars == <<pollVars, net, ev, chatVars>>

(***************************************************************************)
(* State of the admin console.                                             *)
(***************************************************************************)
VARIABLES
    adminToken,      \* let adminToken
    adminStored,     \* localStorage 'admin_token'
    adminView,       \* "loading", "login", "dashboard" ("closed" while not open)
    usersData,       \* let usersData
    filesData,       \* let filesData
    chatsData,       \* let chatsData
    kpi,             \* the totals shown by updateKPIs()
    tables,          \* the rows shown in #usersTable, #filesTable, #auditTable
    modal,           \* what #profileModal and #chatModal show
    loads,           \* loadAllData() invocations with a fetch still outstanding
    adminNet,        \* mutation requests awaiting their response
    teardowns,       \* scheduled, unfired session-teardown timers
    aev              \* what the last handler run of the console did

adminVars == <<adminToken, adminStored, adminView, usersData, filesData, chatsData,
               kpi, tables, modal, loads, adminNet, teardowns, aev>>

PollOnly == UNCHANGED <<chatVars, adminVars>>
ChatOnly == UNCHANGED <<pollVars, adminVars>>
AdminOnlySharedKey ==
    /\ stored' = adminStored'
    /\ UNCHANGED <<booted, token, view, files, selectedFileIds, docList,
                   pollingTimer, timers, net, ev, chatVars>>
AdminOnly == UNCHANGED userVars

TimerIds == 1..(MaxPending + 1)

Min(S) == CHOOSE x \in S : \A y \in S : x <= y

\* setTimeout(fetchFiles, ms) returns a handle no scheduled timer and no held
\* handle uses.
HandlesOf(ts) == { t.h : t \in ts }
NewTimerId(ts, held) == Min(TimerIds \ (HandlesOf(ts) \cup {held}))
SetTimeout(ts, h, ms) == ts \cup {[h |-> h, ms |-> ms]}

\* An outstanding request: what was asked, the credential it carries, and its
\* argument.  Responses arrive in any order, so the requests form a bag.
Req(kind, tok, arg) ==
    [kind |-> kind, tok |-> tok, arg |-> arg, has_file_ids |-> FALSE, file_ids |-> <<>>]
Issue(n, req) == n (+) SetToBag({req})
SettleDroppingOthers(n, req) == EmptyBag
Settle(n, req) == n (-) SetToBag({req})
Pending(n) == BagToSet(n)

\* What one handler run did: its name, the notifications it raised
\* (showToast calls), the fetchFiles() calls it made, the timers it set, the
\* HTTP status it handled (-1 when it handled none), and the query it answered
\* or the file id it was called with (0 when none); inline: it left a
\* message displayed in #auth-error.
Ev(op, toasts, calls, sched, status) ==
    [op |-> op, toasts |-> toasts, calls |-> calls, sched |-> sched,
     status |-> status, q |-> 0, inline |-> FALSE]

\* Outstanding work that can still lead to a fetchFiles() call.
ChainKinds == {"files", "upload", "delete", "login", "share", "download"}
Chain(n) == [r \in {x \in BagToSet(n) : x.kind \in ChainKinds} |-> n[r]]
Outstanding == Cardinality(timers) + BagCardinality(Chain(net))
Room == Outstanding < MaxPending

(***************************************************************************)
(* fetchFiles(), up to its await: cancel the timer whose handle is held,   *)
(* then issue GET /api/files with the credential held now.                 *)
(***************************************************************************)
ClearTimeout(ts, handle) == { t \in ts : t.h # handle }

FetchFilesTimers(ts) ==
    IF pollingTimer # NoTimer THEN ClearTimeout(ts, pollingTimer) ELSE ts

FetchFilesNetCached(n, tok) == Issue(n, Req("files", "tokA", 0))
FetchFilesNet(n, tok) == Issue(n, Req("files", tok, 0))

InitUser ==
    /\ booted = FALSE
    /\ stored \in OneToken \cup {NoToken}
    /\ token = stored
    /\ view = "loading"
    /\ files = <<>>
    /\ selectedFileIds = <<>>
    /\ docList = {}
    /\ pollingTimer = NoTimer
    /\ timers = {}
    /\ net = EmptyBag
    /\ ev = Ev("init", 0, 0, 0, -1)

\* document.addEventListener('DOMContentLoaded', ...)
DOMContentLoaded ==
    /\ ~booted /\ view = "loading"
    /\ booted' = TRUE
    /\ IF token # NoToken
       THEN /\ view' = "dashboard"
            /\ timers' = FetchFilesTimers(timers)
            /\ net' = FetchFilesNet(net, token)
            /\ ev' = Ev("DOMContentLoaded", 0, 1, 0, -1)
       ELSE /\ view' = "auth"
            /\ UNCHANGED <<timers, net>>
            /\ ev' = Ev("DOMContentLoaded", 0, 0, 0, -1)
    /\ UNCHANGED <<token, stored, files, selectedFileIds, docList,
                   pollingTimer>>
    /\ PollOnly

\* refreshBtn.addEventListener('click', fetchFiles)
RefreshClick ==
    /\ booted /\ view = "dashboard" /\ Room
    /\ timers' = FetchFilesTimers(timers)
    /\ net' = FetchFilesNet(net, token)
    /\ ev' = Ev("refresh", 0, 1, 0, -1)
    /\ UNCHANGED <<booted, token, stored, view, files, selectedFileIds, docList,
                   pollingTimer>>
    /\ PollOnly

\* A scheduled setTimeout(fetchFiles, 3000) fires.
TimerFire(t) ==
    /\ t \in timers
    /\ timers' = FetchFilesTimers(timers \ {t})
    /\ net' = FetchFilesNet(net, token)
    /\ ev' = Ev("timerFire", 0, 1, 0, -1)
    /\ UNCHANGED <<booted, token, stored, view, files, selectedFileIds, docList,
                   pollingTimer>>
    /\ PollOnly

\* fetchFiles(), from its await on: the response to GET /api/files arrives.
FetchFilesReturn(r, status, body) ==
    /\ r \in Pending(net) /\ r.kind = "files"
    /\ net' = Settle(net, r)
    /\ IF ResponseOk(status)
       THEN /\ files' = body
            /\ docList' = UpdateDocumentList(body)
            /\ IF HasProcessing(body)
               THEN LET h == NewTimerId(timers, pollingTimer)
                    IN  /\ pollingTimer' = h
                        /\ timers' = SetTimeout(timers, h, PollDelay)
                        /\ ev' = Ev("fetchFilesReturn", 0, 0, 1, status)
               ELSE /\ UNCHANGED <<pollingTimer, timers>>
                    /\ ev' = Ev("fetchFilesReturn", 0, 0, 0, status)
       ELSE /\ UNCHANGED <<files, docList, pollingTimer, timers>>
            /\ ev' = Ev("fetchFilesReturn", 1, 0, 0, status)
    /\ UNCHANGED <<booted, token, stored, view, selectedFileIds>>
    /\ PollOnly

\* uploadFile(file), up to xhr.send.
UploadFile ==
    /\ booted /\ view = "dashboard" /\ Room
    /\ net' = Issue(net, Req("upload", token, 0))
    /\ ev' = Ev("upload", 0, 0, 0, -1)
    /\ UNCHANGED <<booted, token, stored, view, files, selectedFileIds, docList,
                   pollingTimer, timers>>
    /\ PollOnly

\* xhr.status >= 200 && xhr.status < 300
XhrOkNoUpperBound(status) == status >= 200
XhrOk(status) == status >= 200 /\ status < 300

\* xhr.onload / xhr.onerror.  parses: JSON.parse(xhr.responseText) succeeds.
UploadReturn(r, status, parses) ==
    /\ r \in Pending(net) /\ r.kind = "upload"
    /\ IF status = NetError
       THEN /\ net' = Settle(net, r)
            /\ UNCHANGED timers
            /\ ev' = Ev("uploadReturn", 1, 0, 0, status)
       ELSE IF XhrOk(status)
       THEN /\ timers' = FetchFilesTimers(timers)
            /\ net' = FetchFilesNet(Settle(net, r), token)
            /\ ev' = Ev("uploadReturn", 1, 1, 0, status)
       ELSE /\ net' = Settle(net, r)
            /\ UNCHANGED timers
            /\ ev' = Ev("uploadReturn", IF parses THEN 1 ELSE 0, 0, 0, status)
    /\ UNCHANGED <<booted, token, stored, view, files, selectedFileIds, docList,
                   pollingTimer>>
    /\ PollOnly

\* deleteFile(fileId), up to its await; accepted: the answer to confirm().
DeleteFile(fileId, accepted) ==
    /\ booted /\ view = "dashboard" /\ Room
    /\ fileId \in IdsOf(files)
    /\ IF accepted
       THEN /\ net' = Issue(net, Req("delete", token, fileId))
            /\ ev' = Ev("delete", 0, 0, 0, -1)
       ELSE /\ UNCHANGED net
            /\ ev' = Ev("deleteDeclined", 0, 0, 0, -1)
    /\ UNCHANGED <<booted, token, stored, view, files, selectedFileIds, docList,
                   pollingTimer, timers>>
    /\ PollOnly

\* deleteFile(fileId), from its await on.
DeleteReturn(r, status) ==
    /\ r \in Pending(net) /\ r.kind = "delete"
    /\ IF ResponseOk(status)
       THEN /\ timers' = FetchFilesTimers(timers)
            /\ net' = FetchFilesNet(Settle(net, r), token)
            /\ ev' = Ev("deleteReturn", 1, 1, 0, status)
       ELSE /\ net' = Settle(net, r)
            /\ UNCHANGED timers
            /\ ev' = Ev("deleteReturn", 1, 0, 0, status)
    /\ UNCHANGED <<booted, token, stored, view, files, selectedFileIds, docList,
                   pollingTimer>>
    /\ PollOnly

\* shareFile(fileId), up to its await; the share button of a file card.
ShareFile(fileId) ==
    /\ booted /\ view = "dashboard" /\ Room
    /\ fileId \in IdsOf(files)
    /\ net' = Issue(net, Req("share", token, fileId))
    /\ ev' = Ev("share", 0, 0, 0, -1)
    /\ UNCHANGED <<booted, token, stored, view, files, selectedFileIds, docList,
                   pollingTimer, timers>>
    /\ PollOnly

\* The catch block of shareFile: catch (err) { showToast(err.message, true) }
\* sends nothing.
ShareCatchResend(n, r) == Issue(n, r)
ShareCatch(n, r) == n

\* shareFile(fileId), from its await on: the link is copied and announced, or
\* the catch block shows the error.
ShareReturn(r, status) ==
    /\ r \in Pending(net) /\ r.kind = "share"
    /\ IF ResponseOk(status)
       THEN net' = Settle(net, r)
       ELSE net' = ShareCatch(Settle(net, r), r)
    /\ ev' = Ev("shareReturn", 1, 0, 0, status)
    /\ UNCHANGED <<booted, token, stored, view, files, selectedFileIds, docList,
                   pollingTimer, timers>>
    /\ PollOnly

\* downloadFile(fileId, filename), up to its fetch: the credential is read
\* from localStorage.
DownloadFile(fileId) ==
    /\ booted /\ view = "dashboard" /\ Room
    /\ fileId \in IdsOf(files)
    /\ net' = Issue(net, Req("download", stored, fileId))
    /\ ev' = Ev("download", 0, 0, 0, -1)
    /\ UNCHANGED <<booted, token, stored, view, files, selectedFileIds, docList,
                   pollingTimer, timers>>
    /\ PollOnly

\* The promise chain of downloadFile once the response has arrived: the blob
\* is saved and announced, or the .catch shows the error.
DownloadReturn(r, status) ==
    /\ r \in Pending(net) /\ r.kind = "download"
    /\ net' = Settle(net, r)
    /\ ev' = Ev("downloadReturn", 1, 0, 0, status)
    /\ UNCHANGED <<booted, token, stored, view, files, selectedFileIds, docList,
                   pollingTimer, timers>>
    /\ PollOnly

\* handleAuth(e), login flow, up to its await.  authBtn is disabled while the
\* request is outstanding.
HandleAuth ==
    /\ booted /\ view = "auth" /\ Room
    /\ \A r \in Pending(net) : r.kind # "login"
    /\ net' = Issue(net, Req("login", NoToken, 0))
    /\ ev' = Ev("login", 0, 0, 0, -1)
    /\ UNCHANGED <<booted, token, stored, view, files, selectedFileIds, docList,
                   pollingTimer, timers>>
    /\ PollOnly

\* handleAuth(e), login flow, from its await on.
HandleAuthReturn(r, status, access_token) ==
    /\ r \in Pending(net) /\ r.kind = "login"
    /\ IF ResponseOk(status)
       THEN /\ token' = access_token
            /\ stored' = SetItem(access_token)
            /\ view' = "dashboard"
            /\ timers' = FetchFilesTimers(timers)
            /\ net' = FetchFilesNet(Settle(net, r), access_token)
            /\ ev' = Ev("loginReturn", 0, 1, 0, status)
       ELSE /\ net' = Settle(net, r)
            /\ UNCHANGED <<token, stored, view, timers>>
            /\ ev' = [Ev("loginReturn", 0, 0, 0, status) EXCEPT !.inline = TRUE]
    /\ UNCHANGED <<booted, files, selectedFileIds, docList,
                   pollingTimer>>
    /\ PollOnly

\* logout()
Logout ==
    /\ booted /\ view = "dashboard"
    /\ token' = NoToken
    /\ stored' = NoToken
    /\ files' = <<>>
    /\ view' = "auth"
    /\ ev' = Ev("logout", 0, 0, 0, -1)
    /\ UNCHANGED <<booted, selectedFileIds, docList, pollingTimer, timers, net>>
    /\ PollOnly

(***************************************************************************)
(* The document selector of the chat tab.                                  *)
(***************************************************************************)
\* Array.prototype.indexOf: the 0-based position of the first x, or -1.
IndexOf(s, x) ==
    IF \E i \in 1..Len(s) : s[i] = x
    THEN Min({ i \in 1..Len(s) : s[i] = x }) - 1
    ELSE -1

\* s.splice(index, 1): s without the element at the 0-based position index.
Splice(s, index) == SubSeq(s, 1, index) \o SubSeq(s, index + 2, Len(s))

\* The body of toggleFileSelection(fileId):
\* index > -1 ? selectedFileIds.splice(index, 1) : selectedFileIds.push(fileId)
ToggledPushOnly(sel, fileId) == Append(sel, fileId)
Toggled(sel, fileId) ==
    LET index == IndexOf(sel, fileId)
    IN  IF index > -1 THEN Splice(sel, index) ELSE Append(sel, fileId)

\* files.map(f => f.id)
MapIdsFirstOnly(fs) == [i \in 1..Min({1, Len(fs)}) |-> fs[i].id]
MapIds(fs) == [i \in 1..Len(fs) |-> fs[i].id]

\* The selector is part of the dashboard; it changes nothing but the
\* selection and re-renders #doc-list from files.
SelectorMarkingIndexed ==
    /\ booted /\ view = "dashboard"
    /\ docList' = UpdateDocumentList(files)
    /\ files' = [i \in 1..Len(files) |-> [files[i] EXCEPT !.is_indexed = TRUE]]
    /\ UNCHANGED <<booted, token, stored, view, pollingTimer, timers, net>>
    /\ PollOnly
Selector ==
    /\ booted /\ view = "dashboard"
    /\ docList' = UpdateDocumentList(files)
    /\ UNCHANGED <<booted, token, stored, view, files, pollingTimer, timers, net>>
    /\ PollOnly

\* toggleFileSelection(fileId): the onchange handler of a checkbox of #doc-list.
ToggleFileSelection(fileId) ==
    /\ fileId \in docList
    /\ selectedFileIds' = Toggled(selectedFileIds, fileId)
    /\ ev' = [Ev("toggleFileSelection", 0, 0, 0, -1) EXCEPT !.q = fileId]
    /\ Selector

\* selectAllDocs()
SelectAllDocs ==
    /\ selectedFileIds' = MapIds(files)
    /\ ev' = Ev("selectAllDocs", 0, 0, 0, -1)
    /\ Selector

\* clearAllDocs()
ClearAllDocs ==
    /\ selectedFileIds' = <<>>
    /\ ev' = Ev("clearAllDocs", 0, 0, 0, -1)
    /\ Selector

(***************************************************************************)
(* Chat.                                                                   *)
(***************************************************************************)
\* Text the user may have in the chat box: characters are a space or a letter.
ChatTexts == {<<>>, <<" ">>, <<"a">>, <<" ", "a">>}
\* The text a suggestion button carries.
SuggestionText == <<"a">>
\* data.answer of a successful query response.
AnswerText == <<"answer">>
\* 'Sorry, I encountered an error. Please try again.'
GenericError == <<"Sorry, I encountered an error. Please try again.">>

\* err.detail of the body of a non-2xx query response.
ErrorDetail == <<"detail">>

\* String.prototype.trim()
RECURSIVE TrimStart(_)
TrimStart(s) == IF s # <<>> /\ Head(s) = " " THEN TrimStart(Tail(s)) ELSE s
RECURSIVE TrimEnd(_)
TrimEnd(s) ==
    IF s # <<>> /\ s[Len(s)] = " " THEN TrimEnd(SubSeq(s, 1, Len(s) - 1)) ELSE s
TrimNothing(s) == s
Trim(s) == TrimEnd(TrimStart(s))

\* The catch block of handleChat: err is logged, the message shown is fixed.
CatchMessageOfError(err) == err
CatchMessage(err) == GenericError

\* addChatMessage(content, role, sources, isError): one more child of
\* #chat-messages.  q is the query the message belongs to.
ChatMessage(role, content, isError, q) ==
    [role |-> role, typing |-> FALSE, content |-> content, isError |-> isError, q |-> q]

\* addTypingIndicator(): the placeholder, a child with id typing-<id>.
TypingIndicator(id) ==
    [role |-> "assistant", typing |-> TRUE, content |-> <<>>, isError |-> FALSE, q |-> id]

\* removeTypingIndicator(id): remove the element with that id, if any.
RemoveTypingIndicator(t, id) ==
    SelectSeq(t, LAMBDA m : ~(m.typing /\ m.q = id))

\* The request body of POST /api/query: file_ids only for a non-empty selection.
QueryReqAlwaysScoped(tok, q, sel) ==
    [kind |-> "query", tok |-> tok, arg |-> q, has_file_ids |-> TRUE, file_ids |-> sel]
QueryReq(tok, q, sel) ==
    [kind |-> "query", tok |-> tok, arg |-> q,
     has_file_ids |-> Len(sel) > 0, file_ids |-> IF Len(sel) > 0 THEN sel ELSE <<>>]

\* The button re-enabling of the 'input' listener: disabled = !chatInput.value.trim()
InputDisables(v) == Trim(v) = <<>>

InitChat ==
    /\ transcript = <<>>
    /\ chatInput = <<>>
    /\ sendDisabled \in BOOLEAN
    /\ asked = 0

\* chatInput.addEventListener('input', ...): the user edits the chat box.
ChatInput(v) ==
    /\ booted /\ view = "dashboard"
    /\ v # chatInput
    /\ chatInput' = v
    /\ sendDisabled' = InputDisables(v)
    /\ ev' = Ev("chatInput", 0, 0, 0, -1)
    /\ UNCHANGED <<transcript, asked, net>>
    /\ ChatOnly

\* A .suggestion-btn click.  The buttons belong to the empty-state panel,
\* which handleChat removes with the first message.
SuggestionClick ==
    /\ booted /\ view = "dashboard"
    /\ transcript = <<>>
    /\ chatInput' = SuggestionText
    /\ sendDisabled' = FALSE
    /\ ev' = Ev("suggestion", 0, 0, 0, -1)
    /\ UNCHANGED <<transcript, asked, net>>
    /\ ChatOnly

\* handleChat(e), up to its await.  The form is submitted through its button:
\* a disabled button submits nothing.
HandleChat ==
    /\ booted /\ view = "dashboard"
    /\ ~sendDisabled
    /\ asked < MaxQueries
    /\ LET query == Trim(chatInput)
           q == asked + 1
       IN  IF query = <<>>
           THEN /\ ev' = Ev("chatNothing", 0, 0, 0, -1)
                /\ UNCHANGED <<transcript, chatInput, sendDisabled, asked, net>>
           ELSE /\ transcript' = transcript \o
                        <<ChatMessage("user", query, FALSE, q), TypingIndicator(q)>>
                /\ chatInput' = <<>>
                /\ sendDisabled' = TRUE
                /\ asked' = q
                /\ net' = Issue(net, QueryReq(token, q, selectedFileIds))
                /\ ev' = Ev("chat", 0, 0, 0, -1)
    /\ ChatOnly

\* handleChat(e), from its await on.  answered: the 2xx body is JSON with an
\* answer string; any other body ends in the catch block.
HandleChatReturn(r, status, answered) ==
    /\ r \in Pending(net) /\ r.kind = "query"
    /\ net' = Settle(net, r)
    /\ LET without == RemoveTypingIndicator(transcript, r.arg)
       IN  IF ResponseOk(status) /\ answered
           THEN transcript' = Append(without, ChatMessage("assistant", AnswerText, FALSE, r.arg))
           ELSE transcript' = Append(without,
                    ChatMessage("assistant", CatchMessage(ErrorDetail), TRUE, r.arg))
    /\ ev' = [Ev("chatReturn", 0, 0, 0, status) EXCEPT !.q = r.arg]
    /\ UNCHANGED <<chatInput, sendDisabled, asked>>
    /\ ChatOnly

(***************************************************************************)
(* The admin console.                                                      *)
(***************************************************************************)
AdminTokens == {"admA"}

\* A parsed JSON body: an array of rows, or some other JSON value.
JsonArray(n) == [isArray |-> TRUE, items |-> [i \in 1..n |-> i]]
JsonObject == [isArray |-> FALSE, items |-> <<>>]
ListBodies == { JsonArray(n) : n \in 0..MaxRows } \cup {JsonObject}

\* Array.isArray(x) ? x : []
AsArray(body) == IF body.isArray THEN body.items ELSE <<>>

\* The four fetches of loadAllData(), in the order of the Promise.all array.
Resources == <<"users", "files", "chats", "audit-logs">>
ResourceIds == 1..Len(Resources)

\* fetchWithAuth(url), from its await on: how the promise of one fetch settles.
FetchWithAuthLenient(status) ==
    IF status = NetError THEN "NET"
    ELSE IF status = 401 \/ status = 403 THEN "UNAUTHORIZED"
    ELSE "OK"
FetchWithAuth(status) ==
    IF status = NetError THEN "NET"
    ELSE IF ~ResponseOk(status)
         THEN IF status = 401 \/ status = 403 THEN "UNAUTHORIZED" ELSE "HTTP"
         ELSE "OK"

\* The promise chain of a mutating action: .then(res => { if (!res.ok) throw ...;
\* return res.json() }).then(... loadAllData()).catch(...).
MutationChainAlways(status) == "then"
MutationChain(status) ==
    IF status = NetError THEN "catch"
    ELSE IF ~ResponseOk(status) THEN "catch"
    ELSE "then"

\* const action = suspend ? 'suspend' : 'unsuspend'
SuspendAction(suspend) == IF suspend THEN "suspend" ELSE "unsuspend"
\* const action = disable ? 'disable-upload' : 'enable-upload'
UploadAction(disable) == IF disable THEN "disable-upload" ELSE "enable-upload"

\* How a status reads: 2xx, an authorization failure, or another failure.
StatusClass(status) ==
    IF status \in 200..299 THEN "2xx"
    ELSE IF status \in {401, 403} THEN "auth"
    ELSE "failed"

\* What one handler run of the console did.  loads: loadAllData() calls;
\* requests: mutation requests sent; answer: how the response it handled reads
\* ("" when it handled none); action: the mutation; confirmed: a confirm()
\* dialog was shown and accepted.  For the continuation of a loadAllData()
\* invocation, about its four fetches: oks counts the 2xx answers, auth tells
\* whether an answer was 401 or 403; tore tells whether the invocation set the
\* teardown timer.  inline: the run left a message displayed in #auth-error.
AEv(op, toasts, nloads, requests, answer) ==
    [op |-> op, toasts |-> toasts, loads |-> nloads, requests |-> requests,
     answer |-> answer, action |-> "", confirmed |-> FALSE,
     oks |-> 0, auth |-> FALSE, tore |-> FALSE, inline |-> FALSE]

AdminOutstanding == BagCardinality(loads) + BagCardinality(adminNet) + teardowns
AdminRoom == AdminOutstanding < MaxAdminPending

\* loadAllData(), up to its await: four fetches carrying the credential held
\* now, joined by one Promise.all.
NewLoad(tok) == [tok |-> tok]
LoadAllData(ls, tok) == Issue(ls, NewLoad(tok))

\* updateKPIs(): textContent = usersData.length || 0, ...
KPIsSwapped(users, fs, chats) == [users |-> Len(users), files |-> Len(chats), chats |-> Len(fs)]
KPIs(users, fs, chats) == [users |-> Len(users), files |-> Len(fs), chats |-> Len(chats)]

\* Both modals start with display: none.
Hidden == [shown |-> FALSE]
NoModal == [profile |-> Hidden, chat |-> Hidden]

InitAdmin ==
    /\ adminStored \in AdminTokens \cup {NoToken}
    /\ adminToken = adminStored
    /\ adminView = "loading"
    /\ usersData = <<>>
    /\ filesData = <<>>
    /\ chatsData = <<>>
    /\ kpi = [users |-> 0, files |-> 0, chats |-> 0]
    /\ tables = [users |-> <<>>, files |-> <<>>, logs |-> <<>>]
    /\ modal = NoModal
    /\ loads = EmptyBag
    /\ adminNet = EmptyBag
    /\ teardowns = 0
    /\ aev = AEv("init", 0, 0, 0, "")

adminData == <<usersData, filesData, chatsData, kpi, tables, modal>>
adminSession == <<adminToken, adminStored, adminView>>

\* document.addEventListener('DOMContentLoaded', ...)
AdminDOMContentLoaded ==
    /\ adminView = "loading"
    /\ IF adminToken # NoToken
       THEN /\ adminView' = "dashboard"
            /\ loads' = LoadAllData(loads, adminToken)
            /\ aev' = AEv("DOMContentLoaded", 0, 1, 0, "")
       ELSE /\ adminView' = "login"
            /\ UNCHANGED loads
            /\ aev' = AEv("DOMContentLoaded", 0, 0, 0, "")
    /\ UNCHANGED <<adminToken, adminStored, adminData, adminNet, teardowns>>
    /\ AdminOnly

\* The submit handler of the login form, up to its await, while fewer than
\* limit requests and timers of the console are outstanding.
AdminLoginUnder(limit) ==
    /\ adminView = "login" /\ AdminOutstanding < limit
    /\ adminNet' = Issue(adminNet, Req("admin-login", NoToken, 0))
    /\ aev' = AEv("login", 0, 0, 0, "")
    /\ UNCHANGED <<adminSession, adminData, loads, teardowns>>
    /\ AdminOnly
AdminLogin == AdminLoginUnder(MaxAdminPending)

\* The submit handler of the login form, from its await on.  access_token is
\* NoToken when the 2xx body has no access_token.
AdminLoginReturn(r, status, access_token) ==
    /\ r \in Pending(adminNet) /\ r.kind = "admin-login"
    /\ adminNet' = Settle(adminNet, r)
    /\ IF ResponseOk(status) /\ Truthy(access_token)
       THEN /\ adminToken' = access_token
            /\ adminStored' = SetItem(access_token)
            /\ adminView' = "dashboard"
            /\ loads' = LoadAllData(loads, access_token)
            /\ aev' = AEv("loginReturn", 0, 1, 0, StatusClass(status))
       ELSE /\ UNCHANGED <<adminSession, loads>>
            /\ aev' = [AEv("loginReturn", 0, 0, 0, StatusClass(status)) EXCEPT
                        !.inline = TRUE]
    /\ UNCHANGED <<adminData, teardowns>>
    /\ AdminOnly

\* The click handler of the logout button.
AdminLogout ==
    /\ adminView = "dashboard"
    /\ adminToken' = NoToken
    /\ adminStored' = NoToken
    /\ adminView' = "login"
    /\ aev' = AEv("logout", 0, 0, 0, "")
    /\ UNCHANGED <<adminData, loads, adminNet, teardowns>>
    /\ AdminOnly

\* The fetches of an invocation whose promise rejects, given the status each
\* is answered with.
Rejections(statuses) == { i \in ResourceIds : FetchWithAuth(statuses[i]) # "OK" }

LoadEv(statuses, toasts, tore) ==
    [AEv("loadAllDataReturn", toasts, 0, 0, "") EXCEPT
       !.oks = Cardinality({ i \in ResourceIds : StatusClass(statuses[i]) = "2xx" }),
       !.auth = \E i \in ResourceIds : StatusClass(statuses[i]) = "auth",
       !.tore = tore]

\* loadAllData(), from its await on.  The page does nothing while single
\* fetches settle; the continuation runs once the Promise.all settles: it
\* rejects with the error of the fetch that is the first to reject, whatever
\* the others are answered with before or afterwards, and resolves with the
\* four bodies once all four are fulfilled.  statuses: the answer to each
\* fetch; first: the fetch that rejects first (0 when none rejects); bodies:
\* the parsed bodies of the fulfilled fetches.
LoadAllDataReturn(l, statuses, first, bodies) ==
    /\ l \in Pending(loads)
    /\ loads' = Settle(loads, l)
    /\ IF Rejections(statuses) # {}
       THEN /\ first \in Rejections(statuses)
            /\ LET message == FetchWithAuth(statuses[first])
               IN  IF message = "UNAUTHORIZED"
                   THEN /\ teardowns' = teardowns + 1
                        /\ aev' = LoadEv(statuses, 1, TRUE)
                   ELSE /\ UNCHANGED teardowns
                        /\ aev' = LoadEv(statuses, 1, FALSE)
            /\ UNCHANGED adminData
       ELSE /\ first = 0
            /\ usersData' = AsArray(bodies[1])
            /\ filesData' = AsArray(bodies[2])
            /\ chatsData' = AsArray(bodies[3])
            /\ kpi' = KPIs(usersData', filesData', chatsData')
            /\ tables' = [users |-> usersData', files |-> filesData',
                          logs |-> AsArray(bodies[4])]
            /\ aev' = LoadEv(statuses, 0, FALSE)
            /\ UNCHANGED <<modal, teardowns>>
    /\ UNCHANGED <<adminSession, adminNet>>
    /\ AdminOnly

\* A teardown timer set by the catch block of loadAllData() fires, 1500 ms
\* after it was set.
TeardownFire ==
    /\ teardowns > 0
    /\ teardowns' = teardowns - 1
    /\ adminToken' = NoToken
    /\ adminStored' = NoToken
    /\ adminView' = "login"
    /\ aev' = AEv("teardown", 0, 0, 0, "")
    /\ UNCHANGED <<adminData, loads, adminNet>>
    /\ AdminOnly

\* The users the rows of #usersTable offer buttons for.
RowUsers == { tables.users[i] : i \in 1..Len(tables.users) }

MutationReq(action, userId) ==
    [Req("mutation", adminToken, userId) EXCEPT !.file_ids = <<action>>]
ActionOf(r) == r.file_ids[1]

\* The parts the mutating actions share: an action button of a row is used;
\* nothing else of the console changes before the response.
Button(userId) ==
    /\ adminView = "dashboard" /\ AdminRoom
    /\ userId \in RowUsers
    /\ UNCHANGED <<adminSession, adminData, loads, teardowns>>
    /\ AdminOnly
\* if (!confirm(...)) return
Declined(op, action) ==
    /\ aev' = [AEv(op, 0, 0, 0, "") EXCEPT !.action = action]
    /\ UNCHANGED adminNet
\* if (!adminToken) { showToast('Please login first', true); return } /
\* if (!adminToken) return
NoCredential(op, action, toasts, confirmed) ==
    /\ aev' = [AEv(op, toasts, 0, 0, "") EXCEPT !.action = action, !.confirmed = confirmed]
    /\ UNCHANGED adminNet
\* fetch(`${API_URL}/api/admin/users/${userId}...`, ...)
Send(op, action, userId, confirmed) ==
    /\ adminNet' = Issue(adminNet, MutationReq(action, userId))
    /\ aev' = [AEv(op, 0, 0, 1, "") EXCEPT !.action = action, !.confirmed = confirmed]

\* verifyUser(userId), up to its fetch; accepted: the answer to confirm().
VerifyUser(userId, accepted) ==
    /\ Button(userId)
    /\ IF ~accepted THEN Declined("verifyUser", "verify")
       ELSE IF adminToken = NoToken THEN NoCredential("verifyUser", "verify", 1, TRUE)
       ELSE Send("verifyUser", "verify", userId, TRUE)

\* deleteUser(userId), up to its fetch; accepted: the answer to confirm().
DeleteUser(userId, accepted) ==
    /\ Button(userId)
    /\ IF ~accepted THEN Declined("deleteUser", "delete")
       ELSE IF adminToken = NoToken THEN NoCredential("deleteUser", "delete", 1, TRUE)
       ELSE Send("deleteUser", "delete", userId, TRUE)

\* toggleSuspend(userId, suspend), up to its fetch.
ToggleSuspend(userId, suspend) ==
    /\ Button(userId)
    /\ IF adminToken = NoToken
       THEN NoCredential("toggleSuspend", SuspendAction(suspend), 0, FALSE)
       ELSE Send("toggleSuspend", SuspendAction(suspend), userId, FALSE)

\* toggleUpload(userId, disable), up to its fetch.
ToggleUpload(userId, disable) ==
    /\ Button(userId)
    /\ IF adminToken = NoToken
       THEN NoCredential("toggleUpload", UploadAction(disable), 0, FALSE)
       ELSE Send("toggleUpload", UploadAction(disable), userId, FALSE)

\* The promise chain of a mutating action, once the response has arrived: the
\* first .then throws on a non-2xx status, the second shows the message and
\* calls loadAllData(), the .catch shows the error.
MutationReturn(r, status) ==
    /\ r \in Pending(adminNet) /\ r.kind = "mutation"
    /\ adminNet' = Settle(adminNet, r)
    /\ IF MutationChain(status) = "then"
       THEN /\ loads' = LoadAllData(loads, adminToken)
            /\ aev' = [AEv("mutationReturn", 1, 1, 0, StatusClass(status)) EXCEPT
                         !.action = ActionOf(r)]
       ELSE /\ UNCHANGED loads
            /\ aev' = [AEv("mutationReturn", 1, 0, 0, StatusClass(status)) EXCEPT
                         !.action = ActionOf(r)]
    /\ UNCHANGED <<adminSession, adminData, teardowns>>
    /\ AdminOnly

(***************************************************************************)
(* The admin console: search boxes, modals and the buttons of a row.       *)
(***************************************************************************)
MaxRecords == 2

\* Text is a sequence of characters.
Emails == { <<"a", "@", "x">>, <<"b", "@", "x">> }
Filename == <<"b", ".", "t">>
Searches == { <<>>, <<"a">>, <<"B">>, <<"@", "x">>, <<"z">> }

\* String.prototype.toLowerCase()
ToLowerCase(s) ==
    [i \in 1..Len(s) |-> IF s[i] = "A" THEN "a" ELSE IF s[i] = "B" THEN "b" ELSE s[i]]
\* String.prototype.includes(sub)
Includes(s, sub) ==
    \E i \in 0..(Len(s) - Len(sub)) : SubSeq(s, i + 1, i + Len(sub)) = sub

\* The rows of GET /api/admin/users, /files and /chats, with the fields the
\* console reads.
AdminUser(id, email, is_active, can_upload) ==
    [id |-> id, email |-> email, is_active |-> is_active, can_upload |-> can_upload]
AdminFile(id, owner_email) == [id |-> id, filename |-> Filename, owner_email |-> owner_email]
AdminChat(id, user_email, timestamp) ==
    [id |-> id, user_email |-> user_email, timestamp |-> timestamp]

\* Accounts have distinct emails.
Distinct(e) == \A i, j \in DOMAIN e : i # j => e[i] # e[j]
UserLists(Flags) ==
    UNION { { [i \in 1..n |-> AdminUser(i, e[i], a[i], c[i])] :
                e \in { d \in [1..n -> Emails] : Distinct(d) },
                a \in [1..n -> Flags], c \in [1..n -> Flags] } :
            n \in 0..MaxRecords }
AdminFileLists ==
    UNION { { [i \in 1..n |-> AdminFile(i, e[i])] : e \in [1..n -> Emails] } :
            n \in 0..MaxRecords }
AdminChatLists ==
    UNION { { [i \in 1..n |-> AdminChat(i, e[i], i)] : e \in [1..n -> Emails] } :
            n \in 0..MaxRecords }

\* Array.prototype.filter(): a new array of the elements that pass, in order.
Filter(arr, Keep(_)) == SelectSeq(arr, Keep)

\* f => f.owner_email === user.email
OwnedByAnyone(f, email) == TRUE
OwnedBy(f, email) == f.owner_email = email
\* c => c.user_email === user.email
AskedBy(c, email) == c.user_email = email

\* arr.sort((a, b) => new Date(b.timestamp) - new Date(a.timestamp)): newest
\* first, equal timestamps in their order in arr.
RECURSIVE SortByTimestampDesc(_)
SortByTimestampDesc(arr) ==
    IF arr = <<>> THEN <<>>
    ELSE LET rest == SortByTimestampDesc(Tail(arr))
             before == SelectSeq(rest, LAMBDA c : c.timestamp > Head(arr).timestamp)
             after == SelectSeq(rest, LAMBDA c : c.timestamp <= Head(arr).timestamp)
         IN  before \o <<Head(arr)>> \o after

\* sort() reorders the array it is called on.  It is called on the array
\* filter() returned, so the array held in chatsData keeps its order.
ChatsAfterSortInPlace(held, filtered) == SortByTimestampDesc(held)
ChatsAfterSort(held, filtered) == held

\* Array.prototype.slice(0, n)
Slice(arr, n) == SubSeq(arr, 1, IF Len(arr) < n THEN Len(arr) ELSE n)

\* What the functions that only show held data leave alone.
Projection ==
    /\ adminView = "dashboard"
    /\ UNCHANGED <<adminSession, usersData, filesData, kpi, loads, adminNet, teardowns>>
    /\ AdminOnly

\* filterUsers(); value: the text of #searchUsers.
FilterUsers(value) ==
    /\ Projection
    /\ LET search == ToLowerCase(value)
       IN  tables' = [tables EXCEPT !.users =
               IF search = <<>> THEN usersData
               ELSE Filter(usersData, LAMBDA user : Includes(ToLowerCase(user.email), search))]
    /\ aev' = AEv("filterUsers", 0, 0, 0, "")
    /\ UNCHANGED <<chatsData, modal>>

\* The rows filterFiles() renders; value: the text of #searchFiles.
FilteredFiles(value) ==
    LET search == ToLowerCase(value)
    IN  IF search = <<>> THEN filesData
        ELSE Filter(filesData, LAMBDA file :
                 \/ Includes(ToLowerCase(file.filename), search)
                 \/ Includes(ToLowerCase(file.owner_email), search))

\* filterFiles()
FilterFiles(value) ==
    /\ Projection
    /\ tables' = [tables EXCEPT !.files = FilteredFiles(value)]
    /\ aev' = AEv("filterFiles", 0, 0, 0, "")
    /\ UNCHANGED <<chatsData, modal>>

\* showUserFiles(userId, userEmail): puts userEmail into #searchFiles, calls
\* filterFiles() and shows a notification.
ShowUserFiles(userId, userEmail) ==
    /\ Projection
    /\ tables' = [tables EXCEPT !.files = FilteredFiles(userEmail)]
    /\ aev' = AEv("showUserFiles", 1, 0, 0, "")
    /\ UNCHANGED <<chatsData, modal>>

\* showUserProfile(userId)
ShowUserProfile(userId) ==
    /\ Projection
    /\ LET found == { i \in 1..Len(usersData) : usersData[i].id = userId }
       IN  IF found = {}
           THEN UNCHANGED <<chatsData, modal>>
           ELSE LET user == usersData[Min(found)]
                    userFiles == Filter(filesData, LAMBDA f : OwnedBy(f, user.email))
                    userChats == Filter(chatsData, LAMBDA c : AskedBy(c, user.email))
                    recentChats == Slice(SortByTimestampDesc(userChats), 3)
                IN  /\ chatsData' = ChatsAfterSort(chatsData, userChats)
                    /\ modal' = [modal EXCEPT !.profile =
                           [shown |-> TRUE, id |-> userId, email |-> user.email,
                            files |-> Len(userFiles), queries |-> Len(userChats),
                            recent |-> recentChats]]
    /\ aev' = AEv("showUserProfile", 0, 0, 0, "")
    /\ UNCHANGED tables

\* closeProfileModal()
CloseProfileModal ==
    /\ Projection
    /\ modal.profile.shown
    /\ modal' = [modal EXCEPT !.profile = Hidden]
    /\ aev' = AEv("closeProfileModal", 0, 0, 0, "")
    /\ UNCHANGED <<chatsData, tables>>

\* showUserChats(userEmail)
ShowUserChats(userEmail) ==
    /\ Projection
    /\ LET userChats == Filter(chatsData, LAMBDA chat : AskedBy(chat, userEmail))
       IN  /\ chatsData' = IF userChats = <<>> THEN chatsData
                           ELSE ChatsAfterSort(chatsData, userChats)
           /\ modal' = [modal EXCEPT !.chat =
                  [shown |-> TRUE, email |-> userEmail,
                   chats |-> SortByTimestampDesc(userChats)]]
    /\ aev' = AEv("showUserChats", 0, 0, 0, "")
    /\ UNCHANGED tables

\* closeChatModal()
CloseChatModal ==
    /\ Projection
    /\ modal.chat.shown
    /\ modal' = [modal EXCEPT !.chat = Hidden]
    /\ aev' = AEv("closeChatModal", 0, 0, 0, "")
    /\ UNCHANGED <<chatsData, tables>>

\* The argument renderUsersTable() writes into the onclick of a row's
\* suspend / unsuspend button and of its upload button.
SuspendButton(user) == IF user.is_active THEN TRUE ELSE FALSE
UploadButton(user) == IF user.can_upload THEN FALSE ELSE TRUE

\* A click on the suspend / unsuspend button of row i of #usersTable.
RowToggleSuspend(i) ==
    /\ adminView = "dashboard" /\ AdminRoom
    /\ i \in 1..Len(tables.users)
    /\ LET user == tables.users[i]
           action == SuspendAction(SuspendButton(user))
       IN  IF adminToken = NoToken
           THEN NoCredential("toggleSuspend", action, 0, FALSE)
           ELSE Send("toggleSuspend", action, user.id, FALSE)
    /\ UNCHANGED <<adminSession, adminData, loads, teardowns>>
    /\ AdminOnly

\* A click on the upload button of row i of #usersTable.
RowToggleUpload(i) ==
    /\ adminView = "dashboard" /\ AdminRoom
    /\ i \in 1..Len(tables.users)
    /\ LET user == tables.users[i]
           action == UploadAction(UploadButton(user))
       IN  IF adminToken = NoToken
           THEN NoCredential("toggleUpload", action, 0, FALSE)
           ELSE Send("toggleUpload", action, user.id, FALSE)
    /\ UNCHANGED <<adminSession, adminData, loads, teardowns>>
    /\ AdminOnly

(***************************************************************************)
(* Specifications of the end-user client.                                  *)
(***************************************************************************)
\* The body of a response matters to the client only when the status is 2xx.
BodiesFor(status, bodies, none) == IF ResponseOk(status) THEN bodies ELSE {none}

\* The admin console is a page of its own; it is not open.
AdminClosed ==
    /\ adminToken = NoToken
    /\ adminStored = NoToken
    /\ adminView = "closed"
    /\ usersData = <<>>
    /\ filesData = <<>>
    /\ chatsData = <<>>
    /\ kpi = [users |-> 0, files |-> 0, chats |-> 0]
    /\ tables = [users |-> <<>>, files |-> <<>>, logs |-> <<>>]
    /\ modal = NoModal
    /\ loads = EmptyBag
    /\ adminNet = EmptyBag
    /\ teardowns = 0
    /\ aev = AEv("init", 0, 0, 0, "")

\* The file dashboard: session, file list, polling, upload, delete.
InitPoll == InitUser /\ InitChat /\ sendDisabled = TRUE /\ AdminClosed

NextPoll ==
    \/ DOMContentLoaded
    \/ RefreshClick
    \/ \E t \in timers : TimerFire(t)
    \/ \E r \in Pending(net), s \in Statuses :
          \E b \in BodiesFor(s, FileLists, <<>>) : FetchFilesReturn(r, s, b)
    \/ UploadFile
    \/ \E r \in Pending(net), s \in Statuses, p \in BOOLEAN : UploadReturn(r, s, p)
    \/ \E f \in FileIds, a \in BOOLEAN : DeleteFile(f, a)
    \/ \E r \in Pending(net), s \in Statuses : DeleteReturn(r, s)
    \/ HandleAuth
    \/ \E r \in Pending(net), s \in Statuses :
          \E t \in BodiesFor(s, OneToken, NoToken) : HandleAuthReturn(r, s, t)
    \/ Logout

vars == <<userVars, adminVars>>

SpecPoll == InitPoll /\ [][NextPoll]_vars

\* The chat tab of a signed-in dashboard whose file list has settled.
InitChatTab ==
    /\ booted = TRUE
    /\ stored \in OneToken
    /\ token = stored
    /\ view = "dashboard"
    /\ files = <<>>
    /\ selectedFileIds = <<>>
    /\ docList = {}
    /\ pollingTimer = NoTimer
    /\ timers = {}
    /\ net = EmptyBag
    /\ ev = Ev("init", 0, 0, 0, -1)
    /\ InitChat
    /\ AdminClosed

NextChat ==
    \/ \E v \in ChatTexts : ChatInput(v)
    \/ SuggestionClick
    \/ HandleChat
    \/ \E r \in Pending(net), s \in Statuses, a \in BOOLEAN : HandleChatReturn(r, s, a)

SpecChat == InitChatTab /\ [][NextChat]_vars

\* The file list and the document selector in one page session.
NextDocs ==
    \/ DOMContentLoaded
    \/ HandleAuth
    \/ \E r \in Pending(net), s \in Statuses :
          \E t \in BodiesFor(s, OneToken, NoToken) : HandleAuthReturn(r, s, t)
    \/ Logout
    \/ RefreshClick
    \/ \E t \in timers : TimerFire(t)
    \/ \E r \in Pending(net), s \in Statuses :
          \E b \in BodiesFor(s, FileLists, <<>>) : FetchFilesReturn(r, s, b)
    \/ \E f \in FileIds, a \in BOOLEAN : DeleteFile(f, a)
    \/ \E r \in Pending(net), s \in Statuses : DeleteReturn(r, s)
    \/ \E f \in FileIds : ToggleFileSelection(f)
    \/ SelectAllDocs
    \/ ClearAllDocs

SpecDocs == InitPoll /\ [][NextDocs]_vars

\* The file lists with nothing left to index.
SettledLists == { fs \in FileLists : ~HasProcessing(fs) }

\* Answers to GET /api/files that list at most one record.
ShortLists == { fs \in FileLists : Len(fs) <= 1 }

\* The chat tab with its document selector, over a file list that has settled;
\* the user waits for the answer to a query before submitting the next.
InitScope ==
    /\ booted = TRUE
    /\ stored \in OneToken
    /\ token = stored
    /\ view = "dashboard"
    /\ files \in SettledLists
    /\ selectedFileIds = <<>>
    /\ docList = UpdateDocumentList(files)
    /\ pollingTimer = NoTimer
    /\ timers = {}
    /\ net = EmptyBag
    /\ ev = Ev("init", 0, 0, 0, -1)
    /\ InitChat
    /\ AdminClosed

NextScope ==
    \/ \E f \in FileIds : ToggleFileSelection(f)
    \/ SelectAllDocs
    \/ ClearAllDocs
    \/ \E v \in ChatTexts : ChatInput(v)
    \/ SuggestionClick
    \/ (net = EmptyBag /\ HandleChat)
    \/ \E r \in Pending(net), s \in Statuses, a \in BOOLEAN : HandleChatReturn(r, s, a)

SpecScope == InitScope /\ [][NextScope]_vars

\* The conversation across the sessions of one page: login, chat, logout.
InitTalk == InitUser /\ InitChat /\ AdminClosed

NextTalk ==
    \/ DOMContentLoaded
    \/ HandleAuth
    \/ \E r \in Pending(net), s \in Statuses :
          \E t \in BodiesFor(s, OneToken, NoToken) : HandleAuthReturn(r, s, t)
    \/ Logout
    \/ \E t \in timers : TimerFire(t)
    \/ \E r \in Pending(net), s \in Statuses :
          \E b \in BodiesFor(s, ShortLists, <<>>) : FetchFilesReturn(r, s, b)
    \/ \E v \in ChatTexts : ChatInput(v)
    \/ SuggestionClick
    \/ HandleChat
    \/ \E r \in Pending(net), s \in Statuses, a \in BOOLEAN : HandleChatReturn(r, s, a)

SpecTalk == InitTalk /\ [][NextTalk]_vars

\* The end-user page is not open.
UserClosed ==
    /\ booted = FALSE
    /\ stored = NoToken
    /\ token = NoToken
    /\ view = "closed"
    /\ files = <<>>
    /\ selectedFileIds = <<>>
    /\ docList = {}
    /\ pollingTimer = NoTimer
    /\ timers = {}
    /\ net = EmptyBag
    /\ ev = Ev("init", 0, 0, 0, -1)
    /\ InitChat
    /\ sendDisabled = TRUE

\* The answers to the four fetches of one loadAllData() invocation.  The code
\* treats the four alike until all are fulfilled, so the answers are listed up
\* to which fetch gets which: each 200, 401 or 500 in ascending order, or
\* three 200 and one 403 or transport failure.
LoadAnswers ==
    { t \in [ResourceIds -> {200, 401, 500}] :
        \A i \in ResourceIds \ {1} : t[i - 1] <= t[i] } \cup
    { [i \in ResourceIds |-> IF i = k THEN s ELSE 200] :
        k \in ResourceIds, s \in {403, NetError} }
\* The bodies of four fulfilled fetches: four arrays, each empty or of MaxRows
\* rows, or one is no array.
LoadBodies ==
    [ResourceIds -> { JsonArray(n) : n \in {0, MaxRows} }] \cup
    { [i \in ResourceIds |-> IF i = k THEN JsonObject ELSE JsonArray(MaxRows)] :
        k \in ResourceIds }
\* The fetch that rejects first is one that rejects; bodies matter only when
\* none does.
FirstsFor(statuses) == IF Rejections(statuses) = {} THEN {0} ELSE Rejections(statuses)
ListBodiesFor(statuses) ==
    IF Rejections(statuses) = {} THEN LoadBodies
    ELSE {[i \in ResourceIds |-> JsonObject]}

InitAdminPage == InitAdmin /\ UserClosed

NextAdmin ==
    \/ AdminDOMContentLoaded
    \/ AdminLogin
    \/ \E r \in Pending(adminNet), s \in Statuses :
          \E t \in BodiesFor(s, AdminTokens \cup {NoToken}, NoToken) :
             AdminLoginReturn(r, s, t)
    \/ AdminLogout
    \/ \E l \in Pending(loads), sts \in LoadAnswers :
          \E f \in FirstsFor(sts), b \in ListBodiesFor(sts) :
             LoadAllDataReturn(l, sts, f, b)
    \/ TeardownFire
    \/ \E u \in 1..MaxRows, a \in BOOLEAN : VerifyUser(u, a)
    \/ \E u \in 1..MaxRows, a \in BOOLEAN : DeleteUser(u, a)
    \/ \E u \in 1..MaxRows, b \in BOOLEAN : ToggleSuspend(u, b)
    \/ \E u \in 1..MaxRows, b \in BOOLEAN : ToggleUpload(u, b)
    \/ \E r \in Pending(adminNet), s \in Statuses : MutationReturn(r, s)

SpecAdmin == InitAdminPage /\ [][NextAdmin]_vars

\* Four fetches answered 200.
AllOk == [i \in ResourceIds |-> 200]

\* The dashboard of the console after a load that succeeded, with its search
\* boxes and modals; nothing is reloaded.
Loaded(users, fs, chats) ==
    /\ adminStored \in AdminTokens
    /\ adminToken = adminStored
    /\ adminView = "dashboard"
    /\ usersData = users
    /\ filesData = fs
    /\ chatsData = chats
    /\ kpi = KPIs(users, fs, chats)
    /\ tables = [users |-> users, files |-> fs, logs |-> <<>>]
    /\ modal = NoModal
    /\ loads = EmptyBag
    /\ adminNet = EmptyBag
    /\ teardowns = 0
    /\ aev = LoadEv(AllOk, 0, FALSE)

InitViews ==
    /\ \E users \in UserLists({TRUE}), fs \in AdminFileLists, chats \in AdminChatLists :
          Loaded(users, fs, chats)
    /\ UserClosed

NextViews ==
    \/ \E value \in Searches : FilterUsers(value)
    \/ \E value \in Searches : FilterFiles(value)
    \/ \E i \in 1..Len(tables.users) :
          ShowUserFiles(tables.users[i].id, tables.users[i].email)
    \/ \E i \in 1..Len(tables.users) : ShowUserProfile(tables.users[i].id)
    \/ CloseProfileModal
    \/ \E i \in 1..Len(tables.users) : ShowUserChats(tables.users[i].email)
    \/ CloseChatModal

SpecViews == InitViews /\ [][NextViews]_vars

\* The users table with the buttons of its rows; every reload brings the
\* users as the backend holds them then.
UsersOnly(users) ==
    [i \in ResourceIds |-> [isArray |-> TRUE, items |-> IF i = 1 THEN users ELSE <<>>]]

InitButtons ==
    /\ \E users \in UserLists(BOOLEAN) : Loaded(users, <<>>, <<>>)
    /\ UserClosed

NextButtons ==
    \/ \E i \in 1..MaxRecords : RowToggleSuspend(i)
    \/ \E i \in 1..MaxRecords : RowToggleUpload(i)
    \/ \E r \in Pending(adminNet), s \in Statuses : MutationReturn(r, s)
    \/ \E l \in Pending(loads), users \in UserLists(BOOLEAN) :
          LoadAllDataReturn(l, AllOk, 0, UsersOnly(users))

SpecButtons == InitButtons /\ [][NextButtons]_vars


\* Every operation that sends a request, of either page.  On the end-user
\* page the user starts an operation once no response is awaited.
\* The dashboard of a signed-in user, before anything was fetched.
InitSignedIn == InitChatTab /\ sendDisabled = TRUE /\ AdminClosed

InitFailures == InitSignedIn \/ InitAdminPage

NextFailures ==
    \/ (net = EmptyBag /\ RefreshClick)
    \/ \E t \in timers : TimerFire(t)
    \/ \E r \in Pending(net), s \in Statuses :
          \E b \in BodiesFor(s, ShortLists, <<>>) : FetchFilesReturn(r, s, b)
    \/ (net = EmptyBag /\ UploadFile)
    \/ \E r \in Pending(net), s \in Statuses, p \in BOOLEAN : UploadReturn(r, s, p)
    \/ \E f \in FileIds : net = EmptyBag /\ DeleteFile(f, TRUE)
    \/ \E r \in Pending(net), s \in Statuses : DeleteReturn(r, s)
    \/ \E f \in FileIds : net = EmptyBag /\ ShareFile(f)
    \/ \E r \in Pending(net), s \in Statuses : ShareReturn(r, s)
    \/ \E f \in FileIds : net = EmptyBag /\ DownloadFile(f)
    \/ \E r \in Pending(net), s \in Statuses : DownloadReturn(r, s)
    \/ SuggestionClick
    \/ (net = EmptyBag /\ HandleChat)
    \/ \E r \in Pending(net), s \in Statuses, a \in BOOLEAN : HandleChatReturn(r, s, a)
    \/ NextAdmin

SpecFailures == InitFailures /\ [][NextFailures]_vars


\* Nothing is awaited and no fetchFiles timer is pending.
Quiet == net = EmptyBag /\ timers = {}

\* The dashboard of a signed-in user with every handler that reads or writes
\* files; the user starts an operation once the page is quiet.

NextRecords ==
    \/ Logout
    \/ (Quiet /\ RefreshClick)
    \/ \E t \in timers : TimerFire(t)
    \/ \E r \in Pending(net), s \in Statuses :
          \E b \in BodiesFor(s, ShortLists, <<>>) : FetchFilesReturn(r, s, b)
    \/ (Quiet /\ UploadFile)
    \/ \E r \in Pending(net), s \in Statuses, p \in BOOLEAN : UploadReturn(r, s, p)
    \/ \E f \in FileIds : Quiet /\ DeleteFile(f, TRUE)
    \/ \E r \in Pending(net), s \in Statuses : DeleteReturn(r, s)
    \/ \E f \in FileIds : Quiet /\ ShareFile(f)
    \/ \E r \in Pending(net), s \in Statuses : ShareReturn(r, s)
    \/ \E f \in FileIds : Quiet /\ DownloadFile(f)
    \/ \E r \in Pending(net), s \in Statuses : DownloadReturn(r, s)
    \/ \E f \in FileIds : Quiet /\ ToggleFileSelection(f)
    \/ (Quiet /\ SelectAllDocs)
    \/ (Quiet /\ ClearAllDocs)
    \/ (Quiet /\ SuggestionClick)
    \/ (Quiet /\ HandleChat)
    \/ \E r \in Pending(net) : HandleChatReturn(r, 200, TRUE)

SpecRecords == InitSignedIn /\ [][NextRecords]_vars


\* Polling while the backend indexes: every list-files request is answered
\* 200.  Timers that are set fire and requests that are sent are answered;
\* from some moment on every answer shows every file indexed.
AnswerFiles(b) == \E r \in Pending(net) : FetchFilesReturn(r, 200, b)
UnindexedAnswer == \E b \in FileLists : HasProcessing(b) /\ AnswerFiles(b)

NextConverge ==
    \/ RefreshClick
    \/ \E t \in timers : TimerFire(t)
    \/ \E b \in FileLists : AnswerFiles(b)

SpecConverge ==
    /\ InitSignedIn
    /\ [][NextConverge]_vars
    /\ WF_vars(\E t \in timers : TimerFire(t))
    /\ WF_vars(\E b \in FileLists : AnswerFiles(b))
    /\ <>[][~UnindexedAnswer]_vars

\* Calls of fetchFiles() and of loadAllData() that overlap: refreshes and the
\* polling timer of a signed-in dashboard; in the console, a logout and a
\* login while the load of the session before is still in flight.
InitRaces == InitSignedIn \/ InitAdminPage

NextRaces ==
    \/ RefreshClick
    \/ \E t \in timers : TimerFire(t)
    \/ \E r \in Pending(net), s \in Statuses :
          \E b \in BodiesFor(s, ShortLists, <<>>) : FetchFilesReturn(r, s, b)
    \/ AdminDOMContentLoaded
    \/ AdminLoginUnder(MaxAdminPending + 1)
    \/ \E r \in Pending(adminNet), s \in Statuses :
          \E t \in BodiesFor(s, AdminTokens, NoToken) : AdminLoginReturn(r, s, t)
    \/ AdminLogout
    \/ \E l \in Pending(loads), sts \in LoadAnswers :
          \E f \in FirstsFor(sts), b \in ListBodiesFor(sts) :
             LoadAllDataReturn(l, sts, f, b)
    \/ TeardownFire

SpecRaces == InitRaces /\ [][NextRaces]_vars

\* Loads that overlap, each answered from one of two states of the backend:
\* every row of the arrays of one answer carries the number of that state,
\* and the arrays of users, files and chats differ in length; the audit log
\* is empty.
Generations == {1, 2}
RowsOf(g, n) == [isArray |-> TRUE, items |-> [k \in 1..n |-> g]]
Snapshots ==
    { [i \in ResourceIds |-> RowsOf(g, IF i \in DOMAIN n THEN n[i] ELSE 0)] :
        g \in Generations, n \in [1..3 -> 0..MaxRows] }
SnapshotsFor(statuses) ==
    IF Rejections(statuses) = {} THEN Snapshots
    ELSE {[i \in ResourceIds |-> JsonObject]}

NextSnapshots ==
    \/ AdminDOMContentLoaded
    \/ AdminLoginUnder(MaxAdminPending + 1)
    \/ \E r \in Pending(adminNet), s \in Statuses :
          \E t \in BodiesFor(s, AdminTokens, NoToken) : AdminLoginReturn(r, s, t)
    \/ AdminLogout
    \/ \E l \in Pending(loads), sts \in LoadAnswers :
          \E f \in FirstsFor(sts), b \in SnapshotsFor(sts) :
             LoadAllDataReturn(l, sts, f, b)
    \/ TeardownFire

SpecSnapshots == InitAdminPage /\ [][NextSnapshots]_vars

\* Deleting from a signed-in dashboard: the list is refreshed, records are
\* selected for the chat, deletes are confirmed or declined.
NextDelete ==
    \/ (Quiet /\ RefreshClick)
    \/ \E t \in timers : TimerFire(t)
    \/ \E r \in Pending(net), s \in Statuses :
          \E b \in BodiesFor(s, ShortLists, <<>>) : FetchFilesReturn(r, s, b)
    \/ \E f \in FileIds, a \in BOOLEAN : DeleteFile(f, a)
    \/ \E r \in Pending(net), s \in Statuses : DeleteReturn(r, s)
    \/ \E f \in FileIds : ToggleFileSelection(f)

SpecDelete == InitSignedIn /\ [][NextDelete]_vars

\* The status badges of the users table.  A user with the three flags the
\* badges are derived from.
FlaggedUser(id, is_verified, is_active, can_upload) ==
    [id |-> id, is_verified |-> is_verified, is_active |-> is_active,
     can_upload |-> can_upload]
FlaggedUserLists ==
    UNION { { [i \in 1..n |-> FlaggedUser(i, v[i], a[i], c[i])] :
                v \in [1..n -> BOOLEAN], a \in [1..n -> BOOLEAN],
                c \in [1..n -> BOOLEAN] } :
            n \in 0..MaxRecords }

\* let statusBadge = ''; if (...) statusBadge += '<span ...>...</span> ': the
\* badges of one row, in the order they are appended.
BadgeIf(cond, label) == IF cond THEN <<label>> ELSE <<>>
StatusBadgeFirstOnly(user) ==
    IF ~user.is_verified THEN <<"Unverified">>
    ELSE IF ~user.is_active THEN <<"Suspended">>
    ELSE IF ~user.can_upload THEN <<"No Upload">>
    ELSE <<"Active">>
StatusBadge(user) ==
    BadgeIf(~user.is_verified, "Unverified") \o
    BadgeIf(~user.is_active, "Suspended") \o
    BadgeIf(user.is_active /\ user.is_verified, "Active") \o
    BadgeIf(~user.can_upload, "No Upload")

\* renderUsersTable(users): one row per user, with its badges.
RenderUsersTable(users) ==
    /\ adminView = "dashboard"
    /\ tables' = [tables EXCEPT !.users =
                    [i \in 1..Len(users) |->
                       [id |-> users[i].id, statusBadge |-> StatusBadge(users[i])]]]
    /\ aev' = AEv("renderUsersTable", 0, 0, 0, "")
    /\ UNCHANGED <<adminSession, usersData, filesData, chatsData, kpi, modal,
                   loads, adminNet, teardowns>>
    /\ AdminOnly

InitBadges ==
    /\ \E users \in FlaggedUserLists : Loaded(users, <<>>, <<>>)
    /\ UserClosed
NextBadges == RenderUsersTable(usersData)
SpecBadges == InitBadges /\ [][NextBadges]_vars

\* Both pages open in one browser, which keeps their credentials in the same
\* localStorage: the sessions of the two, over lists that stay empty.
NoRows == [i \in ResourceIds |-> JsonArray(0)]

\* Two sessions of the console in one page: the first under the stored
\* credential, the later ones under the credential a login returns.  The
\* backend rejects no request that carries the later credential.
LaterToken == "admB"
Accepted(l, statuses) ==
    l.tok = LaterToken => \A i \in ResourceIds : StatusClass(statuses[i]) # "auth"

NextStale ==
    \/ AdminDOMContentLoaded
    \/ AdminLoginUnder(MaxAdminPending + 1)
    \/ \E r \in Pending(adminNet), s \in Statuses :
          \E t \in BodiesFor(s, {LaterToken}, NoToken) : AdminLoginReturn(r, s, t)
    \/ AdminLogout
    \/ \E l \in Pending(loads), sts \in LoadAnswers :
          \E f \in FirstsFor(sts) : Accepted(l, sts) /\ LoadAllDataReturn(l, sts, f, NoRows)
    \/ TeardownFire

SpecStale == InitAdminPage /\ [][NextStale]_vars

InitSessions == InitUser /\ InitChat /\ sendDisabled = TRUE /\ InitAdmin

NextSessions ==
    \/ DOMContentLoaded
    \/ HandleAuth
    \/ \E r \in Pending(net), s \in Statuses :
          \E t \in BodiesFor(s, OneToken, NoToken) : HandleAuthReturn(r, s, t)
    \/ Logout
    \/ \E r \in Pending(net), s \in Statuses : FetchFilesReturn(r, s, <<>>)
    \/ AdminDOMContentLoaded
    \/ AdminLogin
    \/ \E r \in Pending(adminNet), s \in Statuses :
          \E t \in BodiesFor(s, AdminTokens \cup {NoToken}, NoToken) :
             AdminLoginReturn(r, s, t)
    \/ AdminLogout
    \/ \E l \in Pending(loads), sts \in LoadAnswers :
          \E f \in FirstsFor(sts) : LoadAllDataReturn(l, sts, f, NoRows)
    \/ TeardownFire

SpecSessions == InitSessions /\ [][NextSessions]_vars

\* Both pages with their logins, where the body of a 2xx answer to a login
\* may lack access_token.
NextLogins ==
    \/ DOMContentLoaded
    \/ HandleAuth
    \/ \E r \in Pending(net), s \in Statuses :
          \E t \in BodiesFor(s, OneToken \cup {Undefined}, NoToken) :
             HandleAuthReturn(r, s, t)
    \/ Logout
    \/ RefreshClick
    \/ \E r \in Pending(net), s \in Statuses : FetchFilesReturn(r, s, <<>>)
    \/ AdminDOMContentLoaded
    \/ AdminLogin
    \/ \E r \in Pending(adminNet), s \in Statuses :
          \E t \in BodiesFor(s, AdminTokens \cup {NoToken}, NoToken) :
             AdminLoginReturn(r, s, t)
    \/ AdminLogout
    \/ \E l \in Pending(loads), sts \in LoadAnswers :
          \E f \in FirstsFor(sts) : LoadAllDataReturn(l, sts, f, NoRows)
    \/ TeardownFire

SpecLogins == InitSessions /\ [][NextLogins]_vars

\* Either page, whichever is open, with all its handlers.
InitClients == InitPoll \/ InitAdminPage
NextUserPage ==
    \/ DOMContentLoaded
    \/ RefreshClick
    \/ \E t \in timers : TimerFire(t)
    \/ \E r \in Pending(net), s \in Statuses :
          \E b \in BodiesFor(s, ShortLists, <<>>) : FetchFilesReturn(r, s, b)
    \/ UploadFile
    \/ \E r \in Pending(net), s \in Statuses, p \in BOOLEAN : UploadReturn(r, s, p)
    \/ \E f \in FileIds, a \in BOOLEAN : DeleteFile(f, a)
    \/ \E r \in Pending(net), s \in Statuses : DeleteReturn(r, s)
    \/ HandleAuth
    \/ \E r \in Pending(net), s \in Statuses :
          \E t \in BodiesFor(s, OneToken, NoToken) : HandleAuthReturn(r, s, t)
    \/ Logout

NextClients == NextUserPage \/ NextAdmin
SpecClients == InitClients /\ [][NextClients]_vars

(***************************************************************************)
(* Properties of the end-user client.                                      *)
(***************************************************************************)
Is2xx(status) == status \in 200..299

FetchFilesSucceeded == ev.op = "fetchFilesReturn" /\ Is2xx(ev.status)
FetchFilesFailed(e) == e.op = "fetchFilesReturn" /\ ~Is2xx(e.status)

SomeUnindexed(fs) == \E i \in 1..Len(fs) : fs[i].is_indexed = FALSE

\* C1: whatever fetchFiles() calls were made, overlapping ones included, at
\* most one follow-up timer is scheduled and unfired.
C1_AtMostOnePollingTimer == Cardinality(timers) <= 1

\* C9: right after a fetchFiles() call completed successfully, it has set
\* exactly one 3-second follow-up timer if some fetched record is unindexed;
\* if none is (or the list is empty) it has set none and no follow-up is
\* pending.
C9_FollowUpIffUnindexed ==
    FetchFilesSucceeded =>
        IF SomeUnindexed(files)
        THEN /\ ev.sched = 1
             /\ \E t \in timers : t.h = pollingTimer /\ t.ms = PollDelay
        ELSE /\ ev.sched = 0
             /\ timers = {}

\* C10: the completion of a fetchFiles() call whose request failed (transport
\* error or non-2xx) leaves files as it was, raises exactly one notification,
\* and sets no timer and calls nothing: the set of scheduled timers and the held
\* handle are what they were, so its polling chain has ended.
C10_FailedFetchStopsItsChain ==
    [][FetchFilesFailed(ev') =>
          /\ files' = files
          /\ ev'.toasts = 1
          /\ ev'.sched = 0
          /\ ev'.calls = 0
          /\ timers' = timers
          /\ pollingTimer' = pollingTimer]_vars

\* A poll fails while a file is still processing, and nothing is left to
\* fetch the list again.
C10_Witness ==
    /\ FetchFilesFailed(ev)
    /\ SomeUnindexed(files)
    /\ timers = {}
    /\ net = EmptyBag

\* The completions of the calls that carry the bearer credential.
AuthorizedReturns == {"fetchFilesReturn", "uploadReturn", "deleteReturn"}

\* C6 (end-user client): right after the response with status 401 or 403 to a
\* call that carried the credential was handled, the credential is cleared in
\* memory and in storage and the login view is shown.
C6_AuthFailureEndsSession ==
    (ev.op \in AuthorizedReturns /\ ev.status \in {401, 403}) =>
        /\ token = NoToken
        /\ stored = NoToken
        /\ view = "auth"

\* The requests of one kind in flight.
InFlight(n, kind) ==
    BagCardinality([r \in { x \in BagToSet(n) : x.kind = kind } |-> n[r]])

\* C16: the completion of an upload calls fetchFiles() exactly once, in the
\* same run, when the status is 2xx, and not at all after any other status or a
\* transport error; in no case does it send the upload again.
C16_UploadRefetchesOnSuccessOnly ==
    [][ev'.op = "uploadReturn" =>
          /\ InFlight(net', "upload") = InFlight(net, "upload") - 1
          /\ IF Is2xx(ev'.status)
             THEN /\ ev'.calls = 1
                  /\ InFlight(net', "files") = InFlight(net, "files") + 1
             ELSE /\ ev'.calls = 0
                  /\ InFlight(net', "files") = InFlight(net, "files")]_vars

\* An upload has just ended with a 2xx status and the list is being fetched.
C16_Witness ==
    /\ ev.op = "uploadReturn"
    /\ Is2xx(ev.status)
    /\ ev.calls = 1
    /\ InFlight(net, "files") = 1
    /\ InFlight(net, "upload") = 0

IsTyping(i) == transcript[i].typing
TypingPositions == { i \in 1..Len(transcript) : IsTyping(i) }

\* C2: right after the response to query q was handled, the transcript ends
\* with the user message of q followed by the answer or error message of q,
\* and holds no placeholder of q.
C2_TranscriptEndsQuestionAnswer ==
    (ev.op = "chatReturn") =>
        LET n == Len(transcript)
        IN  /\ n >= 2
            /\ transcript[n - 1].role = "user" /\ transcript[n - 1].q = ev.q
            /\ transcript[n].role = "assistant" /\ ~transcript[n].typing
            /\ transcript[n].q = ev.q
            /\ \A i \in TypingPositions : transcript[i].q # ev.q

\* C3: while a typing placeholder is present the send control is disabled,
\* and the transcript never holds more than one placeholder.
C3_OneQueryInFlight ==
    /\ Cardinality(TypingPositions) <= 1
    /\ (TypingPositions # {} => sendDisabled)

\* A text of nothing but white space.
IsBlank(v) == \A i \in 1..Len(v) : v[i] = " "

\* C14: trim() leaves nothing of a text exactly when the text is empty or
\* white space only, and a handleChat() run over such a text sends no
\* request, adds no message and no placeholder, and leaves the transcript and
\* the selection as they were.
C14_BlankQueryIsNoOp ==
    /\ [](\A v \in ChatTexts : IsBlank(v) <=> Trim(v) = <<>>)
    /\ [][(ev'.op \in {"chat", "chatNothing"} /\ IsBlank(chatInput)) =>
            /\ ev'.op = "chatNothing"
            /\ net' = net
            /\ transcript' = transcript
            /\ selectedFileIds' = selectedFileIds]_vars

\* The form was just submitted over a blank chat box.
C14_Witness ==
    /\ ev.op = "chatNothing"
    /\ IsBlank(chatInput)
    /\ transcript = <<>>
    /\ net = EmptyBag

\* The assistant messages of query q in transcript t, placeholders excluded.
AnswersOf(t, q) ==
    { i \in 1..Len(t) : t[i].role = "assistant" /\ ~t[i].typing /\ t[i].q = q }

\* C15: the completion of a query leaves no placeholder of that query,
\* keeps every other entry of the transcript and appends exactly one
\* assistant message; after a transport failure, a non-2xx response or an
\* unreadable body that message is the fixed generic error text, never the
\* error text of the backend; otherwise it carries the answer.
C15_OneAnswerOrGenericError ==
    [][ev'.op = "chatReturn" =>
          LET n == Len(transcript')
              kept == SelectSeq(transcript, LAMBDA m : ~(m.typing /\ m.q = ev'.q))
          IN  /\ n = Len(kept) + 1
              /\ SubSeq(transcript', 1, n - 1) = kept
              /\ \A i \in 1..n : ~(transcript'[i].typing /\ transcript'[i].q = ev'.q)
              /\ AnswersOf(transcript', ev'.q) = {n}
              /\ transcript'[n].content # ErrorDetail
              /\ IF transcript'[n].isError
                 THEN transcript'[n].content = GenericError
                 ELSE Is2xx(ev'.status) /\ transcript'[n].content = AnswerText
              /\ ~Is2xx(ev'.status) => transcript'[n].isError]_vars

\* A query has just failed with a non-2xx response: its placeholder is gone
\* and the transcript ends with the generic error message.
C15_Witness ==
    /\ ev.op = "chatReturn"
    /\ ev.status \in HttpStatuses /\ ~Is2xx(ev.status)
    /\ transcript # <<>>
    /\ transcript[Len(transcript)].content = GenericError
    /\ \A i \in 1..Len(transcript) : ~(transcript[i].typing /\ transcript[i].q = ev.q)

(***************************************************************************)
(* Properties of the document selector and of query scoping.               *)
(***************************************************************************)
Range(s) == { s[i] : i \in 1..Len(s) }
SymDiff(A, B) == (A \ B) \cup (B \ A)

\* The requests a step sends: those net' holds more copies of than net.
Sent == { r \in BagToSet(net') : CopiesIn(r, net') > CopiesIn(r, net) }

\* C11: a handleChat() run that submits a query sends exactly one query
\* request; its body has file_ids exactly when selectedFileIds is not empty
\* at that moment, and then file_ids lists each selected id once and nothing
\* else; with an empty selection the body has no file_ids.
C11_FileIdsIffSelection ==
    [][ev'.op = "chat" =>
          /\ Cardinality(Sent) = 1
          /\ BagCardinality(net') = BagCardinality(net) + 1
          /\ \A r \in Sent :
                /\ r.kind = "query"
                /\ r.has_file_ids <=> selectedFileIds # <<>>
                /\ r.has_file_ids =>
                      /\ Range(r.file_ids) = Range(selectedFileIds)
                      /\ Len(r.file_ids) = Cardinality(Range(selectedFileIds))
                /\ ~r.has_file_ids => r.file_ids = <<>>]_vars

\* A query was just submitted with two documents selected, and its request
\* names both.
C11_Witness ==
    /\ ev.op = "chat"
    /\ Cardinality(Range(selectedFileIds)) = 2
    /\ \E r \in Pending(net) :
          r.kind = "query" /\ r.has_file_ids /\ Range(r.file_ids) = Range(selectedFileIds)

\* C12: for every id, toggling it once turns the selection into its symmetric
\* difference with {id} (so the membership of every other id is kept), and
\* toggling it a second time gives back the set selected before; a
\* toggleFileSelection(id) run changes the selection in just that way.
C12_ToggleIsSymmetricDifference ==
    /\ [](\A id \in FileIds :
            LET once == Toggled(selectedFileIds, id)
                twice == Toggled(once, id)
            IN  /\ Range(once) = SymDiff(Range(selectedFileIds), {id})
                /\ Range(twice) = Range(selectedFileIds))
    /\ [][ev'.op = "toggleFileSelection" =>
            Range(selectedFileIds') = SymDiff(Range(selectedFileIds), {ev'.q})]_vars

\* A toggle has just removed an id from the selection and another id is
\* still selected.
C12_Witness ==
    /\ ev.op = "toggleFileSelection"
    /\ ev.q \notin Range(selectedFileIds)
    /\ selectedFileIds # <<>>

\* C13: selectAllDocs() makes the selection the ids of files, each once,
\* clearAllDocs() makes it empty, whatever was selected before; neither
\* changes files or sends a request.
C13_SelectAllAndClearAll ==
    [][/\ (ev'.op = "selectAllDocs" =>
             /\ Range(selectedFileIds') = IdsOf(files)
             /\ Len(selectedFileIds') = Len(files)
             /\ files' = files
             /\ net' = net)
       /\ (ev'.op = "clearAllDocs" =>
             /\ selectedFileIds' = <<>>
             /\ files' = files
             /\ net' = net)]_vars

\* Select-all has just selected both files of a two-file list.
C13_Witness ==
    /\ ev.op = "selectAllDocs"
    /\ Len(files) = 2
    /\ Range(selectedFileIds) = IdsOf(files)

\* C17: every selected id is the id of a record of files.
C17_SelectionWithinFiles ==
    \A i \in 1..Len(selectedFileIds) : selectedFileIds[i] \in IdsOf(files)

\* C18: right after logout the transcript is empty.
C18_LogoutClearsTranscript ==
    (ev.op = "logout") => transcript = <<>>

(***************************************************************************)
(* Properties of the credentials.                                          *)
(***************************************************************************)
\* The requests of the end-user client that carry the bearer credential.
AuthorizedKinds == {"files", "upload", "delete", "query"}
\* What a step of the admin console sends.
SentLoads == { l \in BagToSet(loads') : CopiesIn(l, loads') > CopiesIn(l, loads) }
SentMutations ==
    { r \in BagToSet(adminNet') :
        r.kind = "mutation" /\ CopiesIn(r, adminNet') > CopiesIn(r, adminNet) }

\* C19: every request a step sends carries the credential the page holds at
\* that moment (after the step's own assignments); so a request sent once
\* the credential is cleared carries none, whether a click, a timer or the
\* continuation of an earlier operation sends it.
C19_RequestsCarryCurrentCredential ==
    [][/\ \A r \in Sent : r.kind \in AuthorizedKinds => r.tok = token'
       /\ \A l \in SentLoads : l.tok = adminToken'
       /\ \A r \in SentMutations : r.tok = adminToken']_vars

\* After logout a polling timer has fired and its request carries no
\* credential.
C19_Witness ==
    /\ ev.op = "timerFire"
    /\ token = NoToken
    /\ \E r \in Pending(net) : r.kind = "files" /\ r.tok = NoToken

\* C20: a step that changes the end-user credential, in memory or in
\* storage, changes nothing of the admin page, its stored credential
\* included, and a step that changes the admin credential changes nothing of
\* the end-user page.
C20_CredentialsIndependent ==
    [][/\ (token' # token \/ stored' # stored) => adminVars' = adminVars
       /\ (adminToken' # adminToken \/ adminStored' # adminStored) =>
             userVars' = userVars]_vars

\* The admin session has just been torn down or logged out while the
\* end-user session is live.
C20_Witness ==
    /\ aev.op \in {"teardown", "logout"}
    /\ adminStored = NoToken
    /\ token \in Tokens /\ stored = token
    /\ view = "dashboard"

(***************************************************************************)
(* Properties of the admin console.                                        *)
(***************************************************************************)
LoadAllDataSettled(e) == e.op = "loadAllDataReturn"
MutationOps == {"verifyUser", "deleteUser", "toggleSuspend", "toggleUpload"}

\* C4: right after a loadAllData() invocation settled with one of its four
\* fetches answered 401 or 403, whatever the answers to the other three and
\* whichever came first, the invocation has treated it as session expiry: it
\* has set the teardown timer that clears the credential and shows the login
\* view.
C4_AnyAuthFailureTearsDown ==
    (LoadAllDataSettled(aev) /\ aev.auth) => aev.tore

\* C5: a loadAllData() invocation one of whose four fetches is not answered
\* 2xx leaves usersData, filesData, chatsData, the KPI totals and every table
\* as they were and raises exactly one notification.
C5_LoadAllDataAllOrNothing ==
    [][(LoadAllDataSettled(aev') /\ aev'.oks < Cardinality(ResourceIds)) =>
          /\ usersData' = usersData
          /\ filesData' = filesData
          /\ chatsData' = chatsData
          /\ kpi' = kpi
          /\ tables' = tables
          /\ aev'.toasts = 1]_vars

\* A refresh in which three fetches succeed and one fails with a non-auth
\* error, while the console shows rows of an earlier, fully successful load.
C5_Witness ==
    /\ LoadAllDataSettled(aev)
    /\ aev.oks = Cardinality(ResourceIds) - 1
    /\ ~aev.auth
    /\ aev.toasts = 1
    /\ usersData # <<>>
    /\ tables.logs # <<>>
    /\ kpi.users = Len(usersData)

\* C7: right after a handler run that sent a delete or a suspend request, the
\* admin had accepted a confirmation dialog for it.
C7_DestructiveNeedsConfirmation ==
    (aev.action \in {"delete", "suspend"} /\ aev.requests > 0) => aev.confirmed

ReturnOps == {"fetchFilesReturn", "uploadReturn", "deleteReturn", "shareReturn",
              "downloadReturn", "chatReturn"}
\* A handler run that handled the failure of a request.
FailedReturn(e) == e.op \in ReturnOps /\ ~Is2xx(e.status)
AdminFailedReturn(a) ==
    \/ a.op = "loadAllDataReturn" /\ a.oks < Cardinality(ResourceIds)
    \/ a.op \in {"mutationReturn", "loginReturn"} /\ a.answer # "2xx"

Polling == timers # {} \/ InFlight(net, "files") > 0
Converged == ~SomeUnindexed(files) /\ timers = {}

\* C25: while files holds an unindexed record the client is polling, and once
\* a successful fetchFiles() has observed an unindexed record the client
\* reaches, and from some moment on stays in, a state where every record of
\* files is indexed and no timer is pending.
C25_PollingConverges ==
    /\ [](SomeUnindexed(files) => Polling)
    /\ (FetchFilesSucceeded /\ SomeUnindexed(files)) ~> Converged
    /\ <>[]Converged

\* Two records are held, one of them still unindexed, and a timer is pending.
C25_Witness ==
    /\ FetchFilesSucceeded
    /\ Len(files) = 2
    /\ files[1].is_indexed /\ ~files[2].is_indexed
    /\ timers # {}

\* The handlers the user starts other than a refresh, and their continuations.
OtherOps == {"toggleFileSelection", "selectAllDocs", "clearAllDocs", "chat", "chatNothing",
             "chatReturn", "upload", "uploadReturn", "share", "shareReturn",
             "download", "downloadReturn", "delete", "deleteReturn"}

\* C24: files changes only in the continuation of a successful fetchFiles(),
\* which replaces it, and in logout, which empties it; the selector, a query,
\* an upload, a share, a download and a delete leave every record, its
\* is_indexed flag included, as it was.
C24_FilesReplacedWholesale ==
    [][/\ files' # files =>
             \/ ev'.op = "fetchFilesReturn" /\ Is2xx(ev'.status) /\ docList' = IdsOf(files')
             \/ ev'.op = "logout" /\ files' = <<>>
       /\ ev'.op \in OtherOps => files' = files]_vars

\* A delete has succeeded and the record is still held until the list is
\* fetched again.
C24_Witness ==
    /\ ev.op = "deleteReturn"
    /\ Is2xx(ev.status)
    /\ files # <<>>
    /\ \E r \in Pending(net) : r.kind = "files"

\* The requests whose answer a step handles.
Answered == { r \in BagToSet(net) : CopiesIn(r, net') < CopiesIn(r, net) }

\* C28: a list of records that fetchFiles() installs was fetched with the
\* credential held when it is installed; in particular the answer to a
\* request of a session that has been logged out installs nothing, and files
\* stays empty while no credential is held.
C28_FilesFetchedWithHeldCredential ==
    [][(ev'.op = "fetchFilesReturn" /\ files' # <<>>) =>
          \A r \in Answered : r.tok = token']_vars

\* C29: no step sends a request that needs a credential while the page holds
\* none: every list-files, upload, delete and query request, every
\* loadAllData() and every admin mutation that a click, a timer or the
\* continuation of an earlier operation sends carries a credential.
C29_NoRequestWithoutCredential ==
    [][/\ \A r \in Sent : r.kind \in AuthorizedKinds => r.tok # NoToken
       /\ \A l \in SentLoads : l.tok # NoToken
       /\ \A r \in SentMutations : r.tok # NoToken]_vars

\* C30: requests in flight are neither cancelled nor put in order.  A step
\* ends at most one list-files request and at most one loadAllData()
\* invocation, the one whose answer it handles, and a step that starts a
\* fetchFiles() or a loadAllData() ends none; and whatever else is in flight,
\* each pending list-files request answered 200 makes its list the held
\* files, and each pending loadAllData() whose fetches are answered 200 makes
\* its arrays the held usersData, filesData and chatsData: the answer handled
\* last is the one held, whichever call it belongs to.
C30_LastAnswerIsHeld ==
    /\ [][/\ BagCardinality(net') >= BagCardinality(net) - 1
          /\ BagCardinality(net') < BagCardinality(net) => ev'.op \in ReturnOps
          /\ BagCardinality(loads') >= BagCardinality(loads) - 1
          /\ BagCardinality(loads') < BagCardinality(loads) =>
                aev'.op = "loadAllDataReturn"]_vars
    /\ [](\A r \in Pending(net), b \in ShortLists :
            r.kind = "files" => ENABLED (FetchFilesReturn(r, 200, b) /\ files' = b))
    /\ [](\A l \in Pending(loads), b \in LoadBodies :
            ENABLED (/\ LoadAllDataReturn(l, AllOk, 0, b)
                     /\ usersData' = AsArray(b[1])
                     /\ filesData' = AsArray(b[2])
                     /\ chatsData' = AsArray(b[3])))

\* The answer to one of two overlapping fetchFiles() calls has been installed
\* and the other call is still awaiting its answer.
C30_Witness ==
    /\ ev.op = "fetchFilesReturn"
    /\ Is2xx(ev.status)
    /\ files # <<>>
    /\ InFlight(net, "files") >= 1

\* C27: a credential no request of which was answered 401 or 403 is cleared
\* by the admin's logout only: while the backend accepts the credential of
\* the later session, that credential leaves adminToken and localStorage, and
\* the login view returns, in the logout handler and nowhere else.
C27_LaterSessionSurvives ==
    [][(adminToken = LaterToken /\ adminSession' # adminSession) =>
          aev'.op = "logout"]_vars

(***************************************************************************)
(* Properties of the search boxes, modals and row buttons of the console.  *)
(***************************************************************************)
ViewOps == {"filterUsers", "filterFiles", "showUserFiles", "showUserProfile", "showUserChats"}

\* C21: filterUsers, filterFiles, showUserFiles, showUserProfile and
\* showUserChats send no request, start no loadAllData() and leave usersData,
\* filesData and chatsData as they were, in content and order; the rows they
\* show are rows of the held collections.
C21_ViewsOnlyProject ==
    [][aev'.op \in ViewOps =>
          /\ loads' = loads
          /\ adminNet' = adminNet
          /\ usersData' = usersData
          /\ filesData' = filesData
          /\ chatsData' = chatsData
          /\ Range(tables'.users) \subseteq Range(usersData)
          /\ Range(tables'.files) \subseteq Range(filesData)]_vars

\* The chat modal shows two chats of one user newest first, the reverse of
\* their order in chatsData.
C21_Witness ==
    /\ aev.op = "showUserChats"
    /\ modal.chat.shown
    /\ Len(modal.chat.chats) = 2
    /\ modal.chat.chats[1] = chatsData[2]
    /\ modal.chat.chats[2] = chatsData[1]

CountWhere(arr, Test(_)) == Cardinality({ i \in 1..Len(arr) : Test(arr[i]) })

\* C22: the profile shown for a user gives as file count the number of
\* records of filesData whose owner_email equals the user's email and as
\* query count the number of records of chatsData whose user_email equals it.
C22_ProfileCountsByEmail ==
    modal.profile.shown =>
        \E i \in 1..Len(usersData) :
            /\ usersData[i].id = modal.profile.id
            /\ modal.profile.email = usersData[i].email
            /\ modal.profile.files =
                   CountWhere(filesData, LAMBDA f : f.owner_email = usersData[i].email)
            /\ modal.profile.queries =
                   CountWhere(chatsData, LAMBDA c : c.user_email = usersData[i].email)

\* The profile of a user who owns one of two files and has asked nothing,
\* while another user has.
C22_Witness ==
    /\ aev.op = "showUserProfile"
    /\ modal.profile.shown
    /\ Len(filesData) = 2
    /\ modal.profile.files = 1
    /\ chatsData # <<>>
    /\ modal.profile.queries = 0

UploadActions == {"disable-upload", "enable-upload"}
SuspendActions == {"suspend", "unsuspend"}

\* C26: the upload button of a row sends disable-upload for a user with
\* can_upload = true and enable-upload for one with can_upload = false; the
\* suspend button sends suspend for an active user and unsuspend for a
\* suspended one.
C26_ButtonChangesTheFlag ==
    [][\A r \in SentMutations : \A i \in 1..Len(tables.users) :
          tables.users[i].id = r.arg =>
             /\ ActionOf(r) \in UploadActions =>
                   ActionOf(r) = (IF tables.users[i].can_upload
                                  THEN "disable-upload" ELSE "enable-upload")
             /\ ActionOf(r) \in SuspendActions =>
                   ActionOf(r) = (IF tables.users[i].is_active
                                  THEN "suspend" ELSE "unsuspend")]_vars

(***************************************************************************)
(* Properties of the totals, the sessions and the messages.                *)
(***************************************************************************)
\* The backend states the rows of the three held collections come from.
HeldGenerations == Range(usersData) \cup Range(filesData) \cup Range(chatsData)

\* C31: the totals shown are the lengths of usersData, filesData and
\* chatsData after every successful loadAllData(), and in every state; and
\* the three collections hold rows of one answer only, however the loads
\* overlap; a load that fails changes none of them.
C31_TotalsAndOneSnapshot ==
    /\ [](kpi = [users |-> Len(usersData), files |-> Len(filesData),
                 chats |-> Len(chatsData)])
    /\ [](Cardinality(HeldGenerations) <= 1)
    /\ [][(aev'.op = "loadAllDataReturn" /\ aev'.oks < Cardinality(ResourceIds)) =>
             <<usersData, filesData, chatsData, kpi>>' =
             <<usersData, filesData, chatsData, kpi>>]_vars

\* A load was answered in full and installed rows in each collection while
\* another load is still in flight.
C31_Witness ==
    /\ aev.op = "loadAllDataReturn"
    /\ aev.oks = Cardinality(ResourceIds)
    /\ usersData # <<>> /\ filesData # <<>> /\ chatsData # <<>>
    /\ kpi.users = Len(usersData)
    /\ BagCardinality(loads) >= 1

\* C32: in each client the credential in memory and the credential in
\* localStorage agree in every state: the same token in both, or none in
\* both.
C32_MemoryAndStorageAgree ==
    /\ token = stored
    /\ adminToken = adminStored

\* C33: in both clients the dashboard is displayed only while a token that
\* a login returned is held, and once the page has started the login view is
\* displayed whenever no credential is held.
C33_DashboardNeedsCredential ==
    /\ view = "dashboard" => token \in Tokens
    /\ adminView = "dashboard" => adminToken \in AdminTokens
    /\ (booted /\ ~Truthy(token)) => view = "auth"
    /\ (adminView # "loading" /\ ~Truthy(adminToken)) => adminView = "login"

\* C34: the continuation of a login that failed (no 2xx status, a transport
\* error or, in the console, a 2xx body without access_token) leaves the
\* credential in memory and in storage as they were, leaves the view that is
\* displayed (the login view, unless another submission of the console's
\* form has succeeded meanwhile), displays a message in #auth-error and
\* starts neither fetchFiles() nor loadAllData(); a console login ends in
\* exactly one of two ways, that one or a real token installed with the
\* dashboard and one load.
C34_FailedLoginChangesNothing ==
    [][/\ (ev'.op = "loginReturn" /\ ~Is2xx(ev'.status)) =>
             /\ token' = token /\ stored' = stored
             /\ view' = "auth" /\ view = "auth"
             /\ ev'.inline
             /\ ev'.calls = 0 /\ Sent = {} /\ timers' = timers
       /\ aev'.op = "loginReturn" =>
             \/ /\ adminSession' = adminSession
                /\ aev'.inline
                /\ aev'.loads = 0 /\ SentLoads = {}
             \/ /\ aev'.answer = "2xx"
                /\ adminToken' \in AdminTokens
                /\ adminStored' = adminToken'
                /\ adminView' = "dashboard"
                /\ ~aev'.inline
                /\ aev'.loads = 1]_vars

\* A console login was answered 2xx with a body that has no access_token,
\* after a login of the end-user page had failed.
C34_Witness ==
    /\ aev.op = "loginReturn" /\ aev.answer = "2xx" /\ aev.inline
    /\ adminView = "login" /\ adminToken = NoToken
    /\ ev.op = "loginReturn" /\ ~Is2xx(ev.status) /\ ev.inline

\* C35: the handler of a response that is not 2xx always surfaces a
\* message, whether or not the body can be parsed or names the error: a
\* notification after an upload, the inline error after a login of either
\* client.
C35_FailureAlwaysSurfaces ==
    /\ (ev.op = "uploadReturn" /\ ~Is2xx(ev.status)) => ev.toasts >= 1
    /\ (ev.op = "loginReturn" /\ ~Is2xx(ev.status)) => ev.inline
    /\ (aev.op = "loginReturn" /\ aev.answer # "2xx") => aev.inline

\* C36: deleteFile sends the DELETE request only when the user confirmed, and
\* then exactly one; declining sends nothing.  The continuation after a 2xx
\* answer calls fetchFiles() exactly once; after any other answer or a
\* transport error it calls none.  Declining and a failed request leave
\* files, selectedFileIds and the timers as they were.
C36_DeleteAsksThenRefetches ==
    [][/\ (\E r \in Sent : r.kind = "delete") =>
             /\ ev'.op = "delete"
             /\ Cardinality(Sent) = 1
             /\ BagCardinality(net') = BagCardinality(net) + 1
       /\ ev'.op = "deleteDeclined" =>
             /\ net' = net /\ ev'.calls = 0
             /\ <<files, selectedFileIds, timers>>' = <<files, selectedFileIds, timers>>
       /\ ev'.op = "deleteReturn" =>
             /\ InFlight(net', "delete") = InFlight(net, "delete") - 1
             /\ IF Is2xx(ev'.status)
                THEN /\ ev'.calls = 1
                     /\ InFlight(net', "files") = InFlight(net, "files") + 1
                ELSE /\ ev'.calls = 0
                     /\ Sent = {}
                     /\ InFlight(net', "files") = InFlight(net, "files")
                     /\ <<files, selectedFileIds, timers>>' =
                        <<files, selectedFileIds, timers>>]_vars

\* A delete failed while a record is selected for the chat: the record and
\* the selection are still held and nothing is in flight.
C36_Witness ==
    /\ ev.op = "deleteReturn"
    /\ ~Is2xx(ev.status)
    /\ files # <<>>
    /\ selectedFileIds # <<>>
    /\ net = EmptyBag

\* C37: whatever the flags is_verified, is_active and can_upload of a user
\* are, its row shows Unverified exactly when it is not verified, Suspended
\* exactly when it is not active, Active exactly when it is verified and
\* active, and No Upload exactly when it cannot upload, each at most once;
\* Active never shows with Suspended or Unverified, and one of Unverified,
\* Suspended and Active always shows.
C37_BadgesFollowFlags ==
    aev.op = "renderUsersTable" =>
        /\ Len(tables.users) = Len(usersData)
        /\ \A i \in 1..Len(tables.users) :
              LET user == usersData[i]
                  shown == tables.users[i].statusBadge
                  badges == Range(shown)
              IN  /\ "Unverified" \in badges <=> ~user.is_verified
                  /\ "Suspended" \in badges <=> ~user.is_active
                  /\ "Active" \in badges <=> (user.is_verified /\ user.is_active)
                  /\ "No Upload" \in badges <=> ~user.can_upload
                  /\ Cardinality(badges) = Len(shown)
                  /\ "Active" \in badges =>
                        badges \cap {"Suspended", "Unverified"} = {}
                  /\ badges \cap {"Unverified", "Suspended", "Active"} # {}

\* The table shows one row with three badges at once and one row that is
\* Active only.
C37_Witness ==
    /\ aev.op = "renderUsersTable"
    /\ \E i, j \in 1..Len(tables.users) :
          /\ tables.users[i].statusBadge = <<"Unverified", "Suspended", "No Upload">>
          /\ tables.users[j].statusBadge = <<"Active">>

====
